---- MODULE Spec2Model ----
(***************************************************************************)
(* Allocation sites, the allocator registry and the constant-offset bounds *)
(* analysis of the "allocs" pass (llvm-passes/4.0.0/Allocs.cpp, Allocs.h). *)
(*                                                                         *)
(* Strings are sequences of one-character strings, so that split, find and *)
(* parseInt work on characters as the C++ does.  uint64_t is scaled to     *)
(* WordBits bits: sizes live in 0 .. Word-1 and arithmetic on them wraps   *)
(* modulo Word, as the 64-bit arithmetic of the pass wraps modulo 2^64.    *)
(***************************************************************************)
EXTENDS Integers, Sequences, FiniteSets, TLC

VARIABLES
    AllocFuncs,   \* static std::map<std::string, AllocInfo> AllocFuncs
    ClOnDemand,   \* cl::opt<bool> -allocs-ondemand
    PtrBitWidth,  \* DL->getPointerSizeInBits() of the module's data layout
    SiteLookup,   \* AllocsPass::SiteLookup : Value* -> AllocSite*
    FuncSites,    \* AllocsPass::FuncSites : Function* -> SiteList
    Inserted,     \* instructions the pass has inserted into the IR
    pc,           \* "opts": command line being parsed, "pass": pass set up, "done"
    call,         \* the last operation called, its arguments and what it returned
    Build,        \* the source tree compiled in
    OptDetectMemCmp, \* cl::opt<bool> -memaccess-memcmp
    Insts,        \* the instruction list a MemAccessIterator walks
    iter,         \* the MemAccessIterator of the running loop
    visit,        \* the list the loop started on and the records it was given
    Blocks,       \* the basic blocks of the function getInsertPointAfter works on
    ran           \* what a ModuleFunctionPass has called so far, in order

\* The state of the memory access model, of the function under
\* getInsertPointAfter and of the ModuleFunctionPass.
memVars == <<Build, OptDetectMemCmp, Insts, iter, visit, Blocks, ran>>

vars ==
    <<AllocFuncs, ClOnDemand, PtrBitWidth, SiteLookup, FuncSites, Inserted, pc,
      call, memVars>>

(***************************************************************************)
(* Bounds of the model.                                                    *)
(***************************************************************************)
\* Width of the scaled uint64_t.
WordBits == 6
\* Longest chain of address computations between a pointer and its base.
MaxChain == 2
\* Most values of -allocs-custom-funcs on one command line.
MaxCustomFuncs == 2
\* Longest instruction list a MemAccessIterator is started on.
MaxInsts == 2
\* Most index queries on one run of the pass, and most calls of
\* getOrInsertSize on one site.
MaxQueries == 2
\* Most basic blocks of the function getInsertPointAfter is called on.
MaxBlocks == 7
\* Most functions of a module a ModuleFunctionPass runs on.
MaxFunctions == 2

Word == 2^WordBits

\* AllocSite::UnknownSize = (uint64_t)(-1LL)
UnknownSize == Word - 1

\* The names of functions and of allocation kinds the inputs are built from,
\* as sequences of characters.
str ==
    [memcmp |-> <<"m", "e", "m", "c", "m", "p">>,
     malloc |-> <<"m", "a", "l", "l", "o", "c">>,
     calloc |-> <<"c", "a", "l", "l", "o", "c">>,
     reallocarray |-> <<"r", "e", "a", "l", "l", "o", "c", "a", "r", "r", "a", "y">>,
     strdup |-> <<"s", "t", "r", "d", "u", "p">>,
     free |-> <<"f", "r", "e", "e">>,
     mypool |-> <<"m", "y", "p", "o", "o", "l">>,
     foo |-> <<"f", "o", "o">>,
     unknownkind |-> <<"u", "n", "k", "n", "o", "w", "n", "k", "i", "n", "d">>,
     alloca |-> <<"a", "l", "l", "o", "c", "a">>]

(***************************************************************************)
(* AllocInfo and the registry.                                             *)
(***************************************************************************)
AllocInfo(t, m, s, w) == [Type |-> t, MembArg |-> m, SizeArg |-> s, IsWrapper |-> w]

HeapAlloc == {"Malloc", "New", "Calloc", "StrDup", "Realloc"}
AnyAlloc == HeapAlloc \cup {"Alloca", "Global"}
AnyFree == {"Free", "Delete"}

BuiltinAllocFuncs ==
    <<"m", "a", "l", "l", "o", "c">> :> AllocInfo("Malloc", 0, -1, FALSE) @@
    <<"v", "a", "l", "l", "o", "c">> :> AllocInfo("Malloc", 0, -1, FALSE) @@
    <<"p", "v", "a", "l", "l", "o", "c">> :> AllocInfo("Malloc", 0, -1, FALSE) @@
    <<"a", "l", "i", "g", "n", "e", "d", "_", "a", "l", "l", "o", "c">> :> AllocInfo("Malloc", 1, -1, FALSE) @@
    <<"m", "e", "m", "a", "l", "i", "g", "n">> :> AllocInfo("Malloc", 1, -1, FALSE) @@
    <<"c", "a", "l", "l", "o", "c">> :> AllocInfo("Calloc", 1, 0, FALSE) @@
    <<"r", "e", "a", "l", "l", "o", "c">> :> AllocInfo("Realloc", 1, -1, FALSE) @@
    <<"r", "e", "a", "l", "l", "o", "c", "f">> :> AllocInfo("Realloc", 1, -1, FALSE) @@
    <<"r", "e", "a", "l", "l", "o", "c", "a", "r", "r", "a", "y">> :> AllocInfo("Realloc", 2, 1, FALSE) @@
    <<"_", "Z", "n", "w", "j">> :> AllocInfo("New", 0, -1, FALSE) @@
    <<"_", "Z", "n", "w", "j", "R", "K", "S", "t", "9", "n", "o", "t", "h", "r", "o", "w", "_", "t">> :> AllocInfo("Malloc", 0, -1, FALSE) @@
    <<"_", "Z", "n", "w", "m">> :> AllocInfo("New", 0, -1, FALSE) @@
    <<"_", "Z", "n", "w", "m", "R", "K", "S", "t", "9", "n", "o", "t", "h", "r", "o", "w", "_", "t">> :> AllocInfo("Malloc", 0, -1, FALSE) @@
    <<"_", "Z", "n", "a", "j">> :> AllocInfo("New", 0, -1, FALSE) @@
    <<"_", "Z", "n", "a", "j", "R", "K", "S", "t", "9", "n", "o", "t", "h", "r", "o", "w", "_", "t">> :> AllocInfo("Malloc", 0, -1, FALSE) @@
    <<"_", "Z", "n", "a", "m">> :> AllocInfo("New", 0, -1, FALSE) @@
    <<"_", "Z", "n", "a", "m", "R", "K", "S", "t", "9", "n", "o", "t", "h", "r", "o", "w", "_", "t">> :> AllocInfo("Malloc", 0, -1, FALSE) @@
    <<"m", "s", "v", "c", "_", "n", "e", "w", "_", "i", "n", "t">> :> AllocInfo("New", 0, -1, FALSE) @@
    <<"m", "s", "v", "c", "_", "n", "e", "w", "_", "i", "n", "t", "_", "n", "o", "t", "h", "r", "o", "w">> :> AllocInfo("Malloc", 0, -1, FALSE) @@
    <<"m", "s", "v", "c", "_", "n", "e", "w", "_", "l", "o", "n", "g", "l", "o", "n", "g">> :> AllocInfo("New", 0, -1, FALSE) @@
    <<"m", "s", "v", "c", "_", "n", "e", "w", "_", "l", "o", "n", "g", "l", "o", "n", "g", "_", "n", "o", "t", "h", "r", "o", "w">> :> AllocInfo("Malloc", 0, -1, FALSE) @@
    <<"m", "s", "v", "c", "_", "n", "e", "w", "_", "a", "r", "r", "a", "y", "_", "i", "n", "t">> :> AllocInfo("New", 0, -1, FALSE) @@
    <<"m", "s", "v", "c", "_", "n", "e", "w", "_", "a", "r", "r", "a", "y", "_", "i", "n", "t", "_", "n", "o", "t", "h", "r", "o", "w">> :> AllocInfo("Malloc", 0, -1, FALSE) @@
    <<"m", "s", "v", "c", "_", "n", "e", "w", "_", "a", "r", "r", "a", "y", "_", "l", "o", "n", "g", "l", "o", "n", "g">> :> AllocInfo("New", 0, -1, FALSE) @@
    <<"m", "s", "v", "c", "_", "n", "e", "w", "_", "a", "r", "r", "a", "y", "_", "l", "o", "n", "g", "l", "o", "n", "g", "_", "n", "o", "t", "h", "r", "o", "w">> :> AllocInfo("Malloc", 0, -1, FALSE) @@
    <<"s", "t", "r", "d", "u", "p">> :> AllocInfo("StrDup", -1, -1, FALSE) @@
    <<"s", "t", "r", "n", "d", "u", "p">> :> AllocInfo("StrDup", -1, -1, FALSE) @@
    <<"f", "r", "e", "e">> :> AllocInfo("Free", -1, -1, FALSE)

\* TypeMap of CustomAllocFuncParser::parse
TypeMap ==
    <<"m", "a", "l", "l", "o", "c">> :> "Malloc" @@
    <<"n", "e", "w">> :> "New" @@
    <<"c", "a", "l", "l", "o", "c">> :> "Calloc" @@
    <<"s", "t", "r", "d", "u", "p">> :> "StrDup" @@
    <<"r", "e", "a", "l", "l", "o", "c">> :> "Realloc" @@
    <<"f", "r", "e", "e">> :> "Free" @@
    <<"d", "e", "l", "e", "t", "e">> :> "Delete" @@
    <<"a", "l", "l", "o", "c", "a">> :> "Alloca" @@
    <<"g", "l", "o", "b", "a", "l">> :> "Global"

(***************************************************************************)
(* Custom function parsing.                                                *)
(***************************************************************************)
\* std::string::find(delim, start): the first position >= start holding
\* delim, or 0 (npos) when there is none.  Positions are 1-based here.
RECURSIVE find(_, _, _)
find(s, delim, start) ==
    IF start > Len(s) THEN 0
    ELSE IF s[start] = delim THEN start
    ELSE find(s, delim, start + 1)

RECURSIVE splitLoop(_, _, _, _, _)
splitLoop(s, delim, parts, start, pos) ==
    IF pos # 0
    THEN splitLoop(s, delim, Append(parts, SubSeq(s, start, pos - 1)),
                   pos + 1, find(s, delim, pos + 1))
    ELSE Append(parts, SubSeq(s, start, Len(s)))

split(s, delim) == splitLoop(s, delim, <<>>, 1, find(s, delim, 1))

DigitVal ==
    "0" :> 0 @@ "1" :> 1 @@ "2" :> 2 @@ "3" :> 3 @@ "4" :> 4 @@
    "5" :> 5 @@ "6" :> 6 @@ "7" :> 7 @@ "8" :> 8 @@ "9" :> 9

\* The digits operator>> consumes from position p on, and their value.
RECURSIVE readDigits(_, _, _, _)
readDigits(s, p, n, acc) ==
    IF p <= Len(s) /\ s[p] \in DOMAIN DigitVal
    THEN readDigits(s, p + 1, n + 1, 10 * acc + DigitVal[s[p]])
    ELSE [n |-> n, v |-> acc]

RECURSIVE skipSpace(_, _)
skipSpace(s, p) == IF p <= Len(s) /\ s[p] = " " THEN skipSpace(s, p + 1) ELSE p

\* parseInt: std::stringstream ss(s); ss >> i; return !ss.fail();
\* operator>> skips leading white space, reads an optional sign and the
\* longest run of decimal digits, and fails only when there is no digit;
\* what follows the digits is left unread.
parseInt(s) ==
    LET p0 == skipSpace(s, 1)
        signed == p0 <= Len(s) /\ s[p0] \in {"+", "-"}
        p1 == IF signed THEN p0 + 1 ELSE p0
        d == readDigits(s, p1, 0, 0)
    IN  [ok |-> d.n > 0,
         i |-> IF d.n = 0 THEN 0
               ELSE IF signed /\ s[p0] = "-" THEN 0 - d.v ELSE d.v]

\* CustomFuncT(): the value-initialised pair cl::list hands to parse.
EmptyVal == [first |-> <<>>, second |-> AllocInfo("None", 0, 0, FALSE)]

\* A parser that stores the two index fields the other way round.
wrapperInfo_swapped(Type, membarg, sizearg) == AllocInfo(Type, sizearg, membarg, TRUE)

\* Info.Type = it->second; Info.MembArg = <membarg>; Info.SizeArg = <membsizearg>
\* or -1; Info.IsWrapper = true.
wrapperInfo(Type, membarg, sizearg) == AllocInfo(Type, membarg, sizearg, TRUE)

\* The body of parse up to the registration: the error flag O.error() makes
\* parse return, and Val as far as it was filled in.
parseVal(ArgValue) ==
    LET parts == split(ArgValue, ":")
        Val1 == [EmptyVal EXCEPT !.first = parts[1]]
    IN  IF Len(parts) < 3 \/ Len(parts) > 4
        THEN [err |-> TRUE, Val |-> EmptyVal]
        ELSE IF parts[1] = <<>>
        THEN [err |-> TRUE, Val |-> Val1]
        ELSE IF parts[2] \notin DOMAIN TypeMap
        THEN [err |-> TRUE, Val |-> Val1]
        ELSE LET Val2 == [Val1 EXCEPT !.second.Type = TypeMap[parts[2]]]
                 m == parseInt(parts[3])
                 Val3 == [Val2 EXCEPT !.second.MembArg = m.i]
                 s == IF Len(parts) = 3 THEN [ok |-> TRUE, i |-> -1]
                      ELSE parseInt(parts[4])
                 Val4 == [Val3 EXCEPT !.second.SizeArg = s.i]
             IN  IF ~m.ok THEN [err |-> TRUE, Val |-> Val3]
                 ELSE IF ~s.ok THEN [err |-> TRUE, Val |-> Val4]
                 ELSE [err |-> FALSE,
                       Val |-> [Val4 EXCEPT !.second =
                                   wrapperInfo(Val2.second.Type, m.i, s.i)]]

\* std::map::insert: adds the pair only when the key has no entry yet.
insert(Funcs, Val) ==
    IF Val.first \in DOMAIN Funcs THEN Funcs
    ELSE (Val.first :> Val.second) @@ Funcs

\* A parser that registers the name before it has validated the value.
parse_registerFirst(ArgValue, Funcs) ==
    LET r == parseVal(ArgValue)
    IN  [err |-> r.err, Val |-> r.Val,
         AllocFuncs |-> IF r.Val.first = <<>> THEN Funcs ELSE insert(Funcs, r.Val)]

\* CustomAllocFuncParser::parse: what it returns, Val, and the registry
\* after the call.
parse(ArgValue, Funcs) ==
    LET r == parseVal(ArgValue)
    IN  [err |-> r.err, Val |-> r.Val,
         AllocFuncs |-> IF r.err THEN Funcs ELSE insert(Funcs, r.Val)]

(***************************************************************************)
(* IR values.                                                              *)
(***************************************************************************)
\* An operand: a ConstantInt of value v, or some other value (named v).
ConstantInt(v) == [k |-> "ConstantInt", v |-> v, ops |-> <<>>]
NonConst(v) == [k |-> "Value", v |-> v, ops |-> <<>>]
Mul(a, b) == [k |-> "Mul", v |-> 0, ops |-> <<a, b>>]
nullptr == [k |-> "nullptr", v |-> 0, ops |-> <<>>]

NoCallee == [direct |-> FALSE, hasName |-> FALSE, name |-> <<>>]
Indirect == NoCallee
Unnamed == [direct |-> TRUE, hasName |-> FALSE, name |-> <<>>]
Named(n) == [direct |-> TRUE, hasName |-> TRUE, name |-> n]

\* kind   : the class of the value
\* callee : getCalledFunction() of a call or invoke
\* args   : the argument operands of a call or invoke
\* size   : getTypeStoreSize of the pointee type (a global, a call result),
\*          getTypeAllocSize of the allocated type (an alloca)
\* array  : getArraySize() of an alloca
\* noinstr: isNoInstrument of the global, or of the instruction's function
IRValue(kind, callee, args, size, array, noinstr) ==
    [kind |-> kind, callee |-> callee, args |-> args, size |-> size,
     array |-> array, noinstr |-> noinstr]

GlobalVariable(size, noinstr) ==
    IRValue("GlobalVariable", NoCallee, <<>>, size, nullptr, noinstr)
AllocaInst(size, array, noinstr) ==
    IRValue("AllocaInst", NoCallee, <<>>, size, array, noinstr)
CallInst(callee, args, noinstr) ==
    IRValue("CallInst", callee, args, 1, nullptr, noinstr)
InvokeInst(callee, args, noinstr) ==
    IRValue("InvokeInst", callee, args, 1, nullptr, noinstr)
\* An instruction that is no call, invoke or alloca.
OtherInst(kind) == IRValue(kind, NoCallee, <<>>, 0, nullptr, FALSE)
\* A value that is no instruction and no global variable.
Argument == IRValue("Argument", NoCallee, <<>>, 0, nullptr, FALSE)

\* AllocaInst::isArrayAllocation: the array size is not the constant 1.
isArrayAllocation(V) == ~(V.array.k = "ConstantInt" /\ V.array.v = 1)

(***************************************************************************)
(* Allocation sites.                                                       *)
(***************************************************************************)
AllocSite(V, Info) == [isSite |-> TRUE, V |-> V, Info |-> Info]
NoSite == [isSite |-> FALSE, V |-> Argument, Info |-> AllocInfo("None", 0, 0, FALSE)]

isStrDup(A) == A.Info.Type = "StrDup"
isHeapAlloc(A) == A.Info.Type \in HeapAlloc
isStackAlloc(A) == A.Info.Type = "Alloca"
isGlobalAlloc(A) == A.Info.Type = "Global"
isAnyAlloc(A) == A.Info.Type \in AnyAlloc
isAnyFree(A) == A.Info.Type \in AnyFree

\* A classifier that looks at CallInst only and misses invokes.
TryCreate_callOnly(V, Funcs) ==
    IF V.kind = "GlobalVariable"
    THEN AllocSite(V, AllocInfo("Global", -1, -1, FALSE))
    ELSE IF V.kind = "AllocaInst"
    THEN AllocSite(V, AllocInfo("Alloca", -1, -1, FALSE))
    ELSE IF /\ V.kind = "CallInst"
            /\ V.callee.direct
            /\ V.callee.hasName
            /\ V.callee.name \in DOMAIN Funcs
    THEN AllocSite(V, Funcs[V.callee.name])
    ELSE NoSite

\* AllocSite::TryCreate, with the registry it reads.
TryCreate(V, Funcs) ==
    IF V.kind = "GlobalVariable"
    THEN AllocSite(V, AllocInfo("Global", -1, -1, FALSE))
    ELSE IF V.kind = "AllocaInst"
    THEN AllocSite(V, AllocInfo("Alloca", -1, -1, FALSE))
    ELSE IF /\ V.kind \in {"CallInst", "InvokeInst"}
            /\ V.callee.direct
            /\ V.callee.hasName
            /\ V.callee.name \in DOMAIN Funcs
    THEN AllocSite(V, Funcs[V.callee.name])
    ELSE NoSite

\* ConstantInt::get(DL.getLargestLegalIntType(...), N)
getSizeInt(N) == ConstantInt(N % Word)

\* A failed assert (or cast<>): the call does not return.
Aborted == [ok |-> FALSE, Factors |-> <<>>]

\* CallSite::getArgOperand(i), i counted from 0.
hasArgOperand(V, i) == i < Len(V.args)
getArgOperand(V, i) == V.args[i + 1]

\* Factors in the other order, and the array length of every alloca.
getSizeFactors_membFirst(A) ==
    IF ~isAnyAlloc(A) THEN Aborted
    ELSE IF isGlobalAlloc(A)
    THEN [ok |-> TRUE, Factors |-> <<getSizeInt(A.V.size)>>]
    ELSE IF isStackAlloc(A)
    THEN IF A.V.kind # "AllocaInst" THEN Aborted
         ELSE [ok |-> TRUE,
               Factors |-> <<getSizeInt(A.V.size), A.V.array>>]
    ELSE IF A.V.kind \notin {"CallInst", "InvokeInst"} THEN Aborted
    ELSE IF \/ A.Info.SizeArg >= 0 /\ ~hasArgOperand(A.V, A.Info.SizeArg)
            \/ A.Info.MembArg >= 0 /\ ~hasArgOperand(A.V, A.Info.MembArg)
    THEN Aborted
    ELSE [ok |-> TRUE,
          Factors |->
            (IF A.Info.MembArg >= 0
             THEN <<getArgOperand(A.V, A.Info.MembArg)>> ELSE <<>>)
            \o (IF A.Info.SizeArg >= 0
                THEN <<getArgOperand(A.V, A.Info.SizeArg)>> ELSE <<>>)]

\* AllocSite::getSizeFactors.  ok is FALSE when an assertion of the
\* function fails: assert(isAnyAlloc()), cast<AllocaInst>, assert(CS), or
\* getArgOperand's index check.
getSizeFactors(A) ==
    IF ~isAnyAlloc(A) THEN Aborted
    ELSE IF isGlobalAlloc(A)
    THEN [ok |-> TRUE, Factors |-> <<getSizeInt(A.V.size)>>]
    ELSE IF isStackAlloc(A)
    THEN IF A.V.kind # "AllocaInst" THEN Aborted
         ELSE [ok |-> TRUE,
               Factors |-> <<getSizeInt(A.V.size)>>
                           \o (IF isArrayAllocation(A.V)
                               THEN <<A.V.array>> ELSE <<>>)]
    ELSE IF A.V.kind \notin {"CallInst", "InvokeInst"} THEN Aborted
    ELSE IF \/ A.Info.SizeArg >= 0 /\ ~hasArgOperand(A.V, A.Info.SizeArg)
            \/ A.Info.MembArg >= 0 /\ ~hasArgOperand(A.V, A.Info.MembArg)
    THEN Aborted
    ELSE [ok |-> TRUE,
          Factors |->
            (IF A.Info.SizeArg >= 0
             THEN <<getArgOperand(A.V, A.Info.SizeArg)>> ELSE <<>>)
            \o (IF A.Info.MembArg >= 0
                THEN <<getArgOperand(A.V, A.Info.MembArg)>> ELSE <<>>)]

\* The loop of getConstSize over MulOps, from index k on.
RECURSIVE foldMulOps(_, _, _)
foldMulOps(MulOps, k, Size) ==
    IF k > Len(MulOps) THEN Size
    ELSE IF MulOps[k].k # "ConstantInt" THEN UnknownSize
    ELSE foldMulOps(MulOps, k + 1, (Size * MulOps[k].v) % Word)

\* AllocSite::getConstSize.
getConstSize(A) ==
    LET f == getSizeFactors(A)
    IN  IF ~isAnyAlloc(A) \/ ~f.ok THEN [ok |-> FALSE, Size |-> 0]
        ELSE [ok |-> TRUE, Size |-> foldMulOps(f.Factors, 1, 1)]

\* AllocSite::getOrInsertSize(Changed): the value returned, the
\* instructions it inserts before the site, and the caller's flag after
\* the call.  hasChanged: Changed points to a flag of the caller, which is
\* FALSE on entry; Changed is nullptr (the default) otherwise, and there is
\* no flag to set.  IRBuilder::CreateMul folds two constants into a
\* constant and inserts nothing.
getOrInsertSize(A, hasChanged) ==
    LET c == getConstSize(A)
        f == getSizeFactors(A)
        none == [ok |-> TRUE, ret |-> nullptr, Changed |-> FALSE, insert |-> <<>>]
    IN  IF ~isAnyAlloc(A) \/ isStrDup(A) \/ ~c.ok
        THEN [none EXCEPT !.ok = FALSE]
        ELSE IF c.Size # UnknownSize
        THEN [none EXCEPT !.ret = getSizeInt(c.Size)]
        ELSE IF Len(f.Factors) = 0 THEN none
        ELSE IF Len(f.Factors) = 1 THEN [none EXCEPT !.ret = f.Factors[1]]
        ELSE IF f.Factors[1].k = "ConstantInt" /\ f.Factors[2].k = "ConstantInt"
        THEN [ok |-> TRUE,
              ret |-> ConstantInt((f.Factors[1].v * f.Factors[2].v) % Word),
              Changed |-> hasChanged, insert |-> <<>>]
        ELSE [ok |-> TRUE, ret |-> Mul(f.Factors[1], f.Factors[2]),
              Changed |-> hasChanged,
              insert |-> <<Mul(f.Factors[1], f.Factors[2])>>]

\* AllocSite::getFreedPointer: ok is FALSE when assert(isAnyFree()) or the
\* assertion of getArgOperand fails.
getFreedPointer(A) ==
    IF isAnyFree(A) /\ hasArgOperand(A.V, 0)
    THEN [ok |-> TRUE, ret |-> getArgOperand(A.V, 0)]
    ELSE [ok |-> FALSE, ret |-> nullptr]

\* AllocSite::getRellocatedPointer: ok is FALSE when assert(isRealloc()),
\* cast<CallInst>(V) or the assertion of getArgOperand fails.
getRellocatedPointer(A) ==
    IF A.Info.Type = "Realloc" /\ A.V.kind = "CallInst" /\ hasArgOperand(A.V, 0)
    THEN [ok |-> TRUE, ret |-> getArgOperand(A.V, 0)]
    ELSE [ok |-> FALSE, ret |-> nullptr]

(***************************************************************************)
(* Memory accesses (MemAccess.cpp, MemAccess.h).                           *)
(*                                                                         *)
(* An instruction list is a sequence of nodes [id, inst]; a node keeps its *)
(* id when other nodes are inserted, as a node of an ilist keeps its       *)
(* address, and an instruction iterator is the id of its node, or End for  *)
(* the sentinel.  The operands of an instruction are its args, in operand  *)
(* order: a load <<ptr>>, a store <<val, ptr>>, a cmpxchg <<ptr, cmp,      *)
(* new>>, an atomicrmw <<ptr, val>>, a memcpy <<dest, src, len>>, a memset *)
(* <<dest, val, len>>.  The Alignment of a MemAccess is left out.          *)
(***************************************************************************)
\* Build names the MemAccess implementation compiled in: "4.0.0"
\* (MemAccess.cpp and builtin/MemAccess.h), "4.0.0/Analysis" or "11.0.0";
\* the last two are used through Analysis/MemAccess.h.
\* The sentinel of an instruction list, and a null Instruction*.
End == 0

\* An instruction of the kind given: its operands, and the store size of
\* the type it accesses.
MemInst(kind, ops, size) == IRValue(kind, NoCallee, ops, size, nullptr, FALSE)

\* A MemTransferInst (AnyMemTransferInst in 11.0.0) is a "MemCpyInst"; a
\* MemIntrinsic (AnyMemIntrinsic) is a "MemCpyInst" or a "MemSetInst".
\* The place in the list Is of the node an instruction iterator I is at.
indexOf(I, Is) == CHOOSE k \in 1..Len(Is) : Is[k].id = I
\* *I
instAt(I, Is) == Is[indexOf(I, Is)]
\* ++I
nextInst(I, Is) ==
    IF indexOf(I, Is) = Len(Is) THEN End ELSE Is[indexOf(I, Is) + 1].id

\* MemAccess(I, P, L, A, R), and MemAccess() with I = nullptr.
MemAccess(I, P, L, R) == [I |-> I, Pointer |-> P, Length |-> L, IsRead |-> R]
InvalidAccess == MemAccess(End, nullptr, nullptr, FALSE)

\* getSize(I, TypeVal): the store size of the type as a constant.
getSize(N) == ConstantInt(N.inst.size)

\* A getMemCmp that never looks at -memaccess-memcmp.
getMemCmp_always(N, build, detect) ==
    /\ build # "4.0.0"
    /\ N.inst.kind = "CallInst"
    /\ N.inst.callee.direct
    /\ N.inst.callee.hasName
    /\ N.inst.callee.name = str.memcmp

\* getMemCmp: 4.0.0/Analysis looks at the callee only, 11.0.0 looks at
\* -memaccess-memcmp first; 4.0.0 has no such function.
getMemCmp(N, build, detect) ==
    /\ build # "4.0.0"
    /\ (build = "11.0.0") => detect
    /\ N.inst.kind = "CallInst"
    /\ N.inst.callee.direct
    /\ N.inst.callee.hasName
    /\ N.inst.callee.name = str.memcmp

\* The two reads of a memcmp call.
memCmpReads(N) ==
    <<MemAccess(N.id, getArgOperand(N.inst, 0), getArgOperand(N.inst, 2), TRUE),
      MemAccess(N.id, getArgOperand(N.inst, 1), getArgOperand(N.inst, 2), TRUE)>>

\* MemRead::Create of 4.0.0, and MemRead::get of 4.0.0/Analysis without
\* its memcmp case: the read of the instruction, if it has one.
MemRead_Create(N) ==
    LET V == N.inst
    IN  IF V.kind = "LoadInst"
        THEN MemAccess(N.id, V.args[1], getSize(N), TRUE)
        ELSE IF V.kind = "MemCpyInst"
        THEN MemAccess(N.id, V.args[2], V.args[3], TRUE)
        ELSE IF V.kind \in {"AtomicCmpXchgInst", "AtomicRMWInst"}
        THEN MemAccess(N.id, V.args[1], getSize(N), TRUE)
        ELSE InvalidAccess

\* MemWrite::Create of 4.0.0 and MemWrite::get of 4.0.0/Analysis: the write
\* of the instruction, if it has one.
MemWrite_Create(N) ==
    LET V == N.inst
    IN  IF V.kind = "StoreInst"
        THEN MemAccess(N.id, V.args[2], getSize(N), FALSE)
        ELSE IF V.kind \in {"MemCpyInst", "MemSetInst"}
        THEN MemAccess(N.id, V.args[1], V.args[3], FALSE)
        ELSE IF V.kind \in {"AtomicCmpXchgInst", "AtomicRMWInst"}
        THEN MemAccess(N.id, V.args[1], getSize(N), FALSE)
        ELSE InvalidAccess

\* MemAccess::get of 11.0.0 that takes a block copy for a block set.
get_11_destOnly(N, detect) ==
    LET V == N.inst
    IN  IF V.kind = "LoadInst"
        THEN <<MemAccess(N.id, V.args[1], getSize(N), TRUE)>>
        ELSE IF V.kind = "StoreInst"
        THEN <<MemAccess(N.id, V.args[2], getSize(N), FALSE)>>
        ELSE IF V.kind \in {"AtomicCmpXchgInst", "AtomicRMWInst"}
        THEN <<MemAccess(N.id, V.args[1], getSize(N), TRUE),
               MemAccess(N.id, V.args[1], getSize(N), FALSE)>>
        ELSE IF V.kind \in {"MemCpyInst", "MemSetInst"}
        THEN <<MemAccess(N.id, V.args[1], V.args[3], FALSE)>>
        ELSE IF getMemCmp(N, "11.0.0", detect) THEN memCmpReads(N)
        ELSE <<>>

\* MemAccess::get of 11.0.0: the records appended to MA.
get_11(N, detect) ==
    LET V == N.inst
    IN  IF V.kind = "LoadInst"
        THEN <<MemAccess(N.id, V.args[1], getSize(N), TRUE)>>
        ELSE IF V.kind = "StoreInst"
        THEN <<MemAccess(N.id, V.args[2], getSize(N), FALSE)>>
        ELSE IF V.kind \in {"AtomicCmpXchgInst", "AtomicRMWInst"}
        THEN <<MemAccess(N.id, V.args[1], getSize(N), TRUE),
               MemAccess(N.id, V.args[1], getSize(N), FALSE)>>
        ELSE IF V.kind \in {"MemCpyInst", "MemSetInst"}
        THEN (IF V.kind = "MemCpyInst"
              THEN <<MemAccess(N.id, V.args[2], V.args[3], TRUE)>>
              ELSE <<>>)
             \o <<MemAccess(N.id, V.args[1], V.args[3], FALSE)>>
        ELSE IF getMemCmp(N, "11.0.0", detect) THEN memCmpReads(N)
        ELSE <<>>

\* The records of one instruction: MemAccess::get of 11.0.0; MemAccess::get
\* of 4.0.0/Analysis, which is MemRead::get and then MemWrite::get; and in
\* 4.0.0 what MemRead::Create and then MemWrite::Create give.
get(N, build, detect) ==
    LET R == MemRead_Create(N)
        W == MemWrite_Create(N)
        reads == IF R.I # End THEN <<R>>
                 ELSE IF getMemCmp(N, build, detect) THEN memCmpReads(N)
                 ELSE <<>>
    IN  IF build = "11.0.0" THEN get_11(N, detect)
        ELSE reads \o (IF W.I # End THEN <<W>> ELSE <<>>)

\* The operand MemAccess::setPointer rewrites, -1 when an assertion fails.
pointerOperand(MA, Is, build, detect) ==
    LET N == instAt(MA.I, Is)
        V == N.inst
    IN  IF V.kind = "LoadInst" THEN 0
        ELSE IF V.kind = "StoreInst" THEN 1
        ELSE IF V.kind \in {"AtomicCmpXchgInst", "AtomicRMWInst"} THEN 0
        ELSE IF V.kind = "MemCpyInst" THEN (IF MA.IsRead THEN 1 ELSE 0)
        ELSE IF V.kind \in {"MemCpyInst", "MemSetInst"} THEN 0
        ELSE IF getMemCmp(N, build, detect)
        THEN IF MA.Pointer = getArgOperand(V, 0) THEN 0
             ELSE IF MA.Pointer = getArgOperand(V, 1) THEN 1
             ELSE -1
        ELSE -1

\* MemAccess::setPointer(P): the record and the list after the call.
setPointer(MA, P, Is, build, detect) ==
    LET i == pointerOperand(MA, Is, build, detect)
    IN  IF i = -1 THEN [ok |-> FALSE, MA |-> MA, Insts |-> Is]
        ELSE [ok |-> TRUE, MA |-> [MA EXCEPT !.Pointer = P],
              Insts |-> [Is EXCEPT ![indexOf(MA.I, Is)].inst.args[i + 1] = P]]

\* MemAccess::setValue(V): the list after the call; ok is FALSE when
\* assert(isWrite()) or assert(!"invalid instruction") fails.  The record
\* is left as it is.
setValue(MA, V, Is) ==
    LET K == instAt(MA.I, Is).inst.kind
        i == IF MA.IsRead THEN -1
             ELSE IF K = "StoreInst" THEN 0
             ELSE IF K = "AtomicCmpXchgInst" THEN 2
             ELSE IF K = "AtomicRMWInst" THEN 1
             ELSE IF K = "MemSetInst" THEN 1
             ELSE -1
    IN  IF i = -1 THEN [ok |-> FALSE, Insts |-> Is]
        ELSE [ok |-> TRUE,
              Insts |-> [Is EXCEPT ![indexOf(MA.I, Is)].inst.args[i + 1] = V]]

\* MemAccessIterator::advanceToFirstValidAccess of Analysis/MemAccess.h, and
\* the loop of its operator++ from the next instruction on: the first
\* instruction from I on that has records, with its records in MA.
RECURSIVE advanceToFirstValidAccess(_, _, _, _, _)
advanceToFirstValidAccess(I, E, Is, build, detect) ==
    IF I = E THEN [I |-> I, E |-> E, MA |-> <<>>, MAI |-> 0]
    ELSE IF get(instAt(I, Is), build, detect) = <<>>
    THEN advanceToFirstValidAccess(nextInst(I, Is), E, Is, build, detect)
    ELSE [I |-> I, E |-> E, MA |-> get(instAt(I, Is), build, detect), MAI |-> 0]

\* An operator++ of Analysis/MemAccess.h that keeps the records of the
\* instruction it leaves in MA.
RECURSIVE maInc_noClear(_, _, _, _)
maInc_noClear(x, Is, build, detect) ==
    IF build = "4.0.0"
    THEN LET s == IF x.triedRead
                  THEN [x EXCEPT !.MA = MemWrite_Create(instAt(x.I, Is)),
                                 !.triedRead = FALSE]
                  ELSE IF nextInst(x.I, Is) # x.E
                  THEN [x EXCEPT !.I = nextInst(x.I, Is),
                                 !.MA = MemRead_Create(instAt(nextInst(x.I, Is), Is)),
                                 !.triedRead = TRUE]
                  ELSE [x EXCEPT !.I = x.E]
         IN  IF s.MA.I = End /\ s.I # s.E
             THEN maInc_noClear(s, Is, build, detect)
             ELSE s
    ELSE IF x.MAI + 1 = Len(x.MA)
    THEN LET n == advanceToFirstValidAccess(nextInst(x.I, Is), x.E, Is, build,
                                            detect)
         IN  [n EXCEPT !.MA = x.MA \o n.MA]
    ELSE [x EXCEPT !.MAI = x.MAI + 1]

\* MemAccessIterator::operator++: the do-while loop of builtin/MemAccess.h
\* in 4.0.0, the step in the buffer MA of Analysis/MemAccess.h otherwise.
RECURSIVE maInc(_, _, _, _)
maInc(x, Is, build, detect) ==
    IF build = "4.0.0"
    THEN LET s == IF x.triedRead
                  THEN [x EXCEPT !.MA = MemWrite_Create(instAt(x.I, Is)),
                                 !.triedRead = FALSE]
                  ELSE IF nextInst(x.I, Is) # x.E
                  THEN [x EXCEPT !.I = nextInst(x.I, Is),
                                 !.MA = MemRead_Create(instAt(nextInst(x.I, Is), Is)),
                                 !.triedRead = TRUE]
                  ELSE [x EXCEPT !.I = x.E]
         IN  IF s.MA.I = End /\ s.I # s.E THEN maInc(s, Is, build, detect) ELSE s
    ELSE IF x.MAI + 1 = Len(x.MA)
    THEN advanceToFirstValidAccess(nextInst(x.I, Is), x.E, Is, build, detect)
    ELSE [x EXCEPT !.MAI = x.MAI + 1]

\* MemAccessIterator(B, E).  builtin/MemAccess.h of 4.0.0 leaves triedRead
\* uninitialized when B is E: garbage is the value it then holds.
MemAccessIterator(B, E, Is, build, detect, garbage) ==
    IF build = "4.0.0"
    THEN IF B = E
         THEN [I |-> B, E |-> E, triedRead |-> garbage, MA |-> InvalidAccess]
         ELSE LET x == [I |-> B, E |-> E, triedRead |-> TRUE,
                        MA |-> MemRead_Create(instAt(B, Is))]
              IN  IF x.MA.I # End THEN x ELSE maInc(x, Is, build, detect)
    ELSE advanceToFirstValidAccess(B, E, Is, build, detect)

\* MemAccessIterator::operator==
maEq(x, y, build) ==
    IF build = "4.0.0" THEN x.I = y.I
    ELSE x.I = y.I /\ x.E = y.E /\ x.MAI = y.MAI

\* MemAccessIterator::operator*
maDeref(x, build) == IF build = "4.0.0" THEN x.MA ELSE x.MA[x.MAI + 1]

\* The state of the memory access model while nothing uses it.
NoMemAccess ==
    /\ Build = "11.0.0"
    /\ OptDetectMemCmp = FALSE
    /\ Insts = <<>>
    /\ iter = [I |-> End, E |-> End, MA |-> <<>>, MAI |-> 0]
    /\ visit = [F |-> <<>>, out |-> <<>>]
    /\ Blocks = <<>>
    /\ ran = <<>>

(***************************************************************************)
(* Inputs: the -allocs-custom-funcs values offered on the command line and *)
(* the IR values the operations are called on.                             *)
(***************************************************************************)
RECURSIVE Join(_)
Join(fields) ==
    IF Len(fields) = 1 THEN fields[1]
    ELSE fields[1] \o <<":">> \o Join(Tail(fields))

OptTypes == DOMAIN TypeMap \cup {str.unknownkind}

\* The colon-separated fields of the option values offered.
CustomFuncFields ==
    {<<n, t, m>> : n \in {<<>>, str.mypool, str.malloc}, t \in OptTypes,
                   m \in {<<"0">>, <<"-", "1">>, <<"x">>}}
    \cup {<<str.mypool, t, <<"0">>, <<"1">>>> : t \in OptTypes}
    \cup {<<str.mypool, str.malloc, <<"0">>, <<"x">>>>,
          <<str.mypool, str.malloc, <<"0">>, <<"1">>, <<"0">>>>,
          <<str.mypool, str.malloc, <<"0", "x">>>>,
          <<str.mypool, str.malloc, <<>>>>,
          <<str.mypool, str.malloc, <<"0">>, <<"1", "a", "b", "c">>>>,
          <<str.mypool, str.malloc>>,
          <<str.mypool>>,
          <<<<>>>>,
          <<<<"b", "a", "d">>, str.unknownkind, <<"0">>>>}

CustomFuncArgs == {Join(fields) : fields \in CustomFuncFields}

SizeOperands ==
    {ConstantInt(0), ConstantInt(2), ConstantInt(Word \div 2),
     ConstantInt(Word - 1), NonConst(1)}

Callees ==
    {Named(n) : n \in {str.malloc, str.calloc, str.reallocarray, str.strdup,
                       str.free, str.mypool, str.foo}}
    \cup {Unnamed, Indirect}

CallArgs ==
    {<<a>> : a \in SizeOperands}
    \cup {<<a, b>> : a, b \in SizeOperands}
    \cup {<<NonConst(0), a, b>> : a, b \in {ConstantInt(2), NonConst(1)}}

\* The values the allocation-site operations are called on.
Values ==
    {GlobalVariable(s, FALSE) : s \in {1, 4, 16}}
    \cup {AllocaInst(s, a, FALSE) :
            s \in {0, 1, 4, Word \div 2}, a \in SizeOperands \cup {ConstantInt(1)}}
    \cup {CallInst(c, a, FALSE) : c \in Callees, a \in CallArgs}
    \cup {InvokeInst(c, <<a>>, FALSE) :
            c \in {Named(str.malloc), Named(str.foo), Indirect},
            a \in {ConstantInt(2), NonConst(1)}}
    \cup {InvokeInst(Named(c), <<NonConst(0), NonConst(1), ConstantInt(2)>>, FALSE) :
            c \in {str.reallocarray, str.free}}
    \cup {OtherInst("LoadInst"), OtherInst("GetElementPtrInst"), Argument}

\* A function of the module: its name, isNoInstrument(&F) and its
\* instructions in program order.
Function(name, noinstr, insts) ==
    [name |-> name, noinstr |-> noinstr, insts |-> insts]

\* The key of the bucket of globals in FuncSites.
NullFunction == "nullptr"

\* The module the pass runs on: M.globals() and the functions of M, both in
\* module order.  h has a body without any allocation.
TheModule ==
    [globals |-> <<GlobalVariable(16, FALSE), GlobalVariable(4, TRUE)>>,
     functions |->
        <<Function("f", FALSE,
            <<AllocaInst(1, ConstantInt(16), FALSE),
              AllocaInst(4, NonConst(1), FALSE),
              AllocaInst(2, ConstantInt(Word \div 2), FALSE),
              AllocaInst(1, ConstantInt(Word \div 2 + 8), FALSE),
              CallInst(Named(str.malloc), <<ConstantInt(16)>>, FALSE),
              CallInst(Named(str.foo), <<ConstantInt(16)>>, FALSE),
              CallInst(Named(str.malloc), <<NonConst(1)>>, FALSE),
              CallInst(Named(str.malloc), <<ConstantInt(Word - 1)>>, FALSE),
              CallInst(Named(str.calloc), <<ConstantInt(2), ConstantInt(8)>>, FALSE),
              CallInst(Named(str.mypool), <<ConstantInt(16)>>, FALSE),
              CallInst(Named(str.strdup), <<NonConst(1)>>, FALSE)>>),
          Function("g", TRUE,
            <<CallInst(Named(str.malloc), <<ConstantInt(16)>>, TRUE)>>),
          Function("h", FALSE, <<OtherInst("LoadInst")>>)>>]

Functions == {TheModule.functions[k] : k \in 1..Len(TheModule.functions)}

\* The globals and instructions of the module the pass runs on.
ModuleValues ==
    {TheModule.globals[k] : k \in 1..Len(TheModule.globals)}
    \cup UNION {{F.insts[k] : k \in 1..Len(F.insts)} : F \in Functions}

(***************************************************************************)
(* The command line, the pass set-up and the allocation-site operations.   *)
(***************************************************************************)
NoCall == [op |-> "none"]

Init ==
    /\ AllocFuncs = BuiltinAllocFuncs
    /\ ClOnDemand = FALSE
    /\ PtrBitWidth = WordBits
    /\ SiteLookup = <<>>
    /\ FuncSites = <<>>
    /\ Inserted = <<>>
    /\ pc = "opts"
    /\ call = NoCall
    /\ NoMemAccess

\* How many values of the option have been parsed so far.
parsed == IF call.op = "parse" THEN call.nth ELSE 0

\* One value of -allocs-custom-funcs is handed to the parser.  An error
\* fails the parsing of the command line: no pass runs.
Parse(ArgValue) ==
    /\ pc = "opts"
    /\ parsed < MaxCustomFuncs
    /\ LET r == parse(ArgValue, AllocFuncs)
       IN  /\ AllocFuncs' = r.AllocFuncs
           /\ pc' = IF r.err THEN "opterr" ELSE "opts"
           /\ call' = [op |-> "parse", nth |-> parsed + 1, ArgValue |-> ArgValue,
                       err |-> r.err, Val |-> r.Val,
                       had |-> r.Val.first \in DOMAIN AllocFuncs]
    /\ UNCHANGED <<ClOnDemand, PtrBitWidth, SiteLookup, Inserted, FuncSites,
                   memVars>>

\* The sites the scan of runOnModule finds and enters into SiteLookup.
scan(Funcs) ==
    LET found == {V \in ModuleValues : ~V.noinstr /\ TryCreate(V, Funcs).isSite}
    IN  [V \in found |-> TryCreate(V, Funcs)]

\* The sites of a list of instructions, in the order of the instructions.
sitesOf(insts, Funcs) ==
    SelectSeq([k \in 1..Len(insts) |-> TryCreate(insts[k], Funcs)],
              LAMBDA A : A.isSite)

\* A scan that forgets to leave out the functions excluded from
\* instrumentation.
scanFuncSites_all(Funcs) ==
    LET GlobalAllocs == SelectSeq(TheModule.globals, LAMBDA GV : ~GV.noinstr)
    IN  [key \in {NullFunction} \cup {F.name : F \in Functions} |->
            IF key = NullFunction
            THEN [k \in 1..Len(GlobalAllocs) |->
                    AllocSite(GlobalAllocs[k], AllocInfo("Global", -1, -1, FALSE))]
            ELSE sitesOf((CHOOSE F \in Functions : F.name = key).insts, Funcs)]

\* The buckets the scan of runOnModule fills: the globals under the null
\* function, the sites of each function under the function.
scanFuncSites(Funcs) ==
    LET GlobalAllocs == SelectSeq(TheModule.globals, LAMBDA GV : ~GV.noinstr)
        scanned == {F \in Functions : ~F.noinstr}
    IN  [key \in {NullFunction} \cup {F.name : F \in scanned} |->
            IF key = NullFunction
            THEN [k \in 1..Len(GlobalAllocs) |->
                    AllocSite(GlobalAllocs[k], AllocInfo("Global", -1, -1, FALSE))]
            ELSE sitesOf((CHOOSE F \in scanned : F.name = key).insts, Funcs)]

\* AllocsPass::runOnModule (DebugFlag off).
RunOnModule ==
    /\ pc = "opts"
    /\ pc' = "pass"
    /\ SiteLookup' = IF ClOnDemand THEN SiteLookup ELSE scan(AllocFuncs)
    /\ FuncSites' = IF ClOnDemand THEN FuncSites ELSE scanFuncSites(AllocFuncs)
    /\ call' = [op |-> "runOnModule"]
    /\ UNCHANGED <<AllocFuncs, ClOnDemand, PtrBitWidth, Inserted, memVars>>

\* The state after an operation: the process is gone when an assertion
\* failed.
after(ok) == IF ok THEN "done" ELSE "aborted"

CallTryCreate(V) ==
    /\ pc = "pass"
    /\ pc' = "done"
    /\ call' = [op |-> "TryCreate", V |-> V, ret |-> TryCreate(V, AllocFuncs)]
    /\ UNCHANGED <<AllocFuncs, ClOnDemand, PtrBitWidth, SiteLookup, Inserted,
                 FuncSites, memVars>>

CallGetSizeFactors(V) ==
    /\ pc = "pass"
    /\ LET A == TryCreate(V, AllocFuncs)
           r == getSizeFactors(A)
       IN  /\ A.isSite
           /\ pc' = after(r.ok)
           /\ call' = [op |-> "getSizeFactors", A |-> A, ok |-> r.ok,
                       ret |-> r.Factors]
    /\ UNCHANGED <<AllocFuncs, ClOnDemand, PtrBitWidth, SiteLookup, Inserted,
                 FuncSites, memVars>>

CallGetConstSize(V) ==
    /\ pc = "pass"
    /\ LET A == TryCreate(V, AllocFuncs)
           r == getConstSize(A)
       IN  /\ A.isSite
           /\ pc' = after(r.ok)
           /\ call' = [op |-> "getConstSize", A |-> A, ok |-> r.ok,
                       Factors |-> getSizeFactors(A).Factors, ret |-> r.Size]
    /\ UNCHANGED <<AllocFuncs, ClOnDemand, PtrBitWidth, SiteLookup, Inserted,
                 FuncSites, memVars>>

\* A client calls getOrInsertSize on a site, or calls it once more on the
\* site it has just called it on.
CallGetOrInsertSize(V, hasChanged) ==
    /\ IF pc = "done"
       THEN /\ call.op = "getOrInsertSize"
            /\ call.A.V = V
            /\ call.nth < MaxQueries
       ELSE pc = "pass"
    /\ LET A == TryCreate(V, AllocFuncs)
           r == getOrInsertSize(A, hasChanged)
       IN  /\ A.isSite
           /\ pc' = after(r.ok)
           /\ Inserted' = Inserted \o r.insert
           /\ call' = [op |-> "getOrInsertSize", A |-> A, ok |-> r.ok,
                       ret |-> r.ret, Changed |-> r.Changed,
                       hasChanged |-> hasChanged, insert |-> r.insert,
                       nth |-> IF pc = "done" THEN call.nth + 1 ELSE 1]
    /\ UNCHANGED <<AllocFuncs, ClOnDemand, PtrBitWidth, SiteLookup, FuncSites,
                   memVars>>

CallGetFreedPointer(V) ==
    /\ pc = "pass"
    /\ LET A == TryCreate(V, AllocFuncs)
           r == getFreedPointer(A)
       IN  /\ A.isSite
           /\ pc' = after(r.ok)
           /\ call' = [op |-> "getFreedPointer", A |-> A, ok |-> r.ok,
                       ret |-> r.ret]
    /\ UNCHANGED <<AllocFuncs, ClOnDemand, PtrBitWidth, SiteLookup, Inserted,
                   FuncSites, memVars>>

CallGetRellocatedPointer(V) ==
    /\ pc = "pass"
    /\ LET A == TryCreate(V, AllocFuncs)
           r == getRellocatedPointer(A)
       IN  /\ A.isSite
           /\ pc' = after(r.ok)
           /\ call' = [op |-> "getRellocatedPointer", A |-> A, ok |-> r.ok,
                       ret |-> r.ret]
    /\ UNCHANGED <<AllocFuncs, ClOnDemand, PtrBitWidth, SiteLookup, Inserted,
                   FuncSites, memVars>>

Next ==
    \/ \E ArgValue \in CustomFuncArgs : Parse(ArgValue)
    \/ RunOnModule
    \/ \E V \in Values : CallTryCreate(V)
    \/ \E V \in Values : CallGetSizeFactors(V)
    \/ \E V \in Values : CallGetConstSize(V)
    \/ \E V \in Values, hasChanged \in BOOLEAN : CallGetOrInsertSize(V, hasChanged)
    \/ \E V \in Values : CallGetFreedPointer(V)
    \/ \E V \in Values : CallGetRellocatedPointer(V)

Spec == Init /\ [][Next]_vars

(***************************************************************************)
(* Bounds analysis.                                                        *)
(***************************************************************************)
\* An address: a base value and the address computations applied to it,
\* the outermost (the one that yields the address) first.  A computation
\* is a getelementptr (inbounds or not, with all-constant indices of byte
\* offset off, or with some non-constant index) or a bitcast.
GEP(inbounds, const, off) ==
    [op |-> "GetElementPtr", inbounds |-> inbounds, const |-> const, off |-> off]
BitCast == [op |-> "BitCast", inbounds |-> FALSE, const |-> FALSE, off |-> 0]

Address(base, chain) == [base |-> base, chain |-> chain]

\* APInt(numBits, val) keeps the low numBits bits of val; APInt() is one
\* bit wide.
APInt(numBits, val) == [BitWidth |-> numBits, val |-> val % (2^numBits)]
APIntDefault == [BitWidth |-> 1, val |-> 0]
getZExtValue(a) == a.val
getSExtValue(a) ==
    IF a.val >= 2^(a.BitWidth - 1) THEN a.val - 2^a.BitWidth ELSE a.val

\* ObjectSizeOffsetVisitor::bothKnown: both APInts are wider than one bit.
bothKnown(SizeOffset) ==
    SizeOffset.first.BitWidth > 1 /\ SizeOffset.second.BitWidth > 1

\* Value::stripAndAccumulateInBoundsConstantOffsets from computation k of
\* the chain on: bitcasts and inbounds getelementptrs with constant
\* indices are stripped, their offsets added to Offset in its own width;
\* any other getelementptr is itself the value returned (no site).
RECURSIVE stripFrom(_, _, _)
stripFrom(Addr, k, Offset) ==
    IF k > Len(Addr.chain) THEN [V |-> Addr.base, Offset |-> Offset]
    ELSE IF Addr.chain[k].op = "BitCast" THEN stripFrom(Addr, k + 1, Offset)
    ELSE IF ~Addr.chain[k].inbounds \/ ~Addr.chain[k].const
    THEN [V |-> OtherInst("GetElementPtrInst"), Offset |-> Offset]
    ELSE stripFrom(Addr, k + 1,
                   APInt(Offset.BitWidth, Offset.val + Addr.chain[k].off))

stripAndAccumulateInBoundsConstantOffsets(Addr, Offset) == stripFrom(Addr, 1, Offset)

\* A lookup that creates the site on demand and does not remember it.
getAllocSite_noCache(V, Lookup, OnDemand, Funcs) ==
    IF V \in DOMAIN Lookup THEN [A |-> Lookup[V], SiteLookup |-> Lookup]
    ELSE IF OnDemand
    THEN [A |-> TryCreate(V, Funcs), SiteLookup |-> Lookup]
    ELSE [A |-> NoSite, SiteLookup |-> Lookup]

\* AllocsPass::getAllocSite: the site, and SiteLookup after the call.
getAllocSite(V, Lookup, OnDemand, Funcs) ==
    IF V \in DOMAIN Lookup THEN [A |-> Lookup[V], SiteLookup |-> Lookup]
    ELSE IF OnDemand
    THEN LET A == TryCreate(V, Funcs)
         IN  [A |-> A,
              SiteLookup |-> IF A.isSite THEN (V :> A) @@ Lookup ELSE Lookup]
    ELSE [A |-> NoSite, SiteLookup |-> Lookup]

\* A bounds oracle that does not test for UnknownSize and keeps the offset
\* when the base has no site.
computeSizeAndOffset_noSentinel(Addr, Width, Lookup, OnDemand, Funcs) ==
    LET s == stripAndAccumulateInBoundsConstantOffsets(Addr, APInt(Width, 0))
        g == getAllocSite(s.V, Lookup, OnDemand, Funcs)
        c == getConstSize(g.A)
    IN  IF g.A.isSite /\ c.ok
        THEN [ok |-> TRUE, first |-> APInt(Width, c.Size), second |-> s.Offset,
              SiteLookup |-> g.SiteLookup]
        ELSE [ok |-> TRUE, first |-> APIntDefault, second |-> s.Offset,
              SiteLookup |-> g.SiteLookup]

\* AllocsPass::computeSizeAndOffset: the pair returned and SiteLookup
\* after the call; ok is FALSE when getConstSize fails an assertion.
computeSizeAndOffset(Addr, Width, Lookup, OnDemand, Funcs) ==
    LET s == stripAndAccumulateInBoundsConstantOffsets(Addr, APInt(Width, 0))
        g == getAllocSite(s.V, Lookup, OnDemand, Funcs)
        c == getConstSize(g.A)
        unknown == [ok |-> TRUE, first |-> APIntDefault, second |-> APIntDefault,
                    SiteLookup |-> g.SiteLookup]
    IN  IF g.A.isSite
        THEN IF ~c.ok THEN [unknown EXCEPT !.ok = FALSE]
             ELSE IF c.Size # UnknownSize
             THEN [ok |-> TRUE, first |-> APInt(Width, c.Size),
                   second |-> s.Offset, SiteLookup |-> g.SiteLookup]
             ELSE unknown
        ELSE unknown

\* A comparison that rejects the access that fits exactly.
inBounds_offByOne(Size, Offset, AccessedBytes) ==
    Offset >= 0 /\ Size >= Offset /\ Size - Offset > AccessedBytes

\* The three checks of isInBoundsAccess, on Size (uint64_t), Offset
\* (int64_t) and AccessedBytes (uint64_t); uint64_t(Offset) is Offset
\* where Offset >= 0.
inBounds(Size, Offset, AccessedBytes) ==
    Offset >= 0 /\ Size >= Offset /\ Size - Offset >= AccessedBytes

\* AllocsPass::isInBoundsAccess.
isInBoundsAccess(Addr, AccessedBytes, Width, Lookup, OnDemand, Funcs) ==
    LET SizeOffset == computeSizeAndOffset(Addr, Width, Lookup, OnDemand, Funcs)
    IN  [ok |-> SizeOffset.ok,
         ret |-> /\ SizeOffset.ok
                 /\ bothKnown(SizeOffset)
                 /\ inBounds(getZExtValue(SizeOffset.first),
                             getSExtValue(SizeOffset.second), AccessedBytes),
         SiteLookup |-> SizeOffset.SiteLookup]

\* An isInBounds that takes a length that is no constant for the length 0.
isInBounds_symbolicZero(MA, Width, Lookup, OnDemand, Funcs) ==
    IF MA.I = End THEN [ok |-> FALSE, ret |-> FALSE, SiteLookup |-> Lookup]
    ELSE isInBoundsAccess(MA.Pointer,
                          IF MA.Length.k = "ConstantInt" THEN MA.Length.v ELSE 0,
                          Width, Lookup, OnDemand, Funcs)

\* AllocsPass::isInBounds(const MemAccess &MA); ok is FALSE when
\* assert(MA.isValid()) or an assertion of getConstSize fails.
isInBounds(MA, Width, Lookup, OnDemand, Funcs) ==
    IF MA.I = End THEN [ok |-> FALSE, ret |-> FALSE, SiteLookup |-> Lookup]
    ELSE IF MA.Length.k = "ConstantInt"
    THEN isInBoundsAccess(MA.Pointer, MA.Length.v, Width, Lookup, OnDemand, Funcs)
    ELSE [ok |-> TRUE, ret |-> FALSE, SiteLookup |-> Lookup]

\* AllocsPass::isInBounds(LoadInst&), (StoreInst&), (AtomicCmpXchgInst&),
\* (AtomicRMWInst&) and (MemIntrinsic&).  The last one keeps the length in
\* an unsigned, which has half the bits of uint64_t.
isInBounds_Inst(V, Width, Lookup, OnDemand, Funcs) ==
    LET Size == V.args[3].v % (2^(WordBits \div 2))
        src == isInBoundsAccess(V.args[2], Size, Width, Lookup, OnDemand, Funcs)
    IN  IF V.kind = "StoreInst"
        THEN isInBoundsAccess(V.args[2], V.size, Width, Lookup, OnDemand, Funcs)
        ELSE IF V.kind \in {"LoadInst", "AtomicCmpXchgInst", "AtomicRMWInst"}
        THEN isInBoundsAccess(V.args[1], V.size, Width, Lookup, OnDemand, Funcs)
        ELSE IF V.args[3].k # "ConstantInt"
        THEN [ok |-> TRUE, ret |-> FALSE, SiteLookup |-> Lookup]
        ELSE IF V.kind = "MemCpyInst" /\ ~src.ret THEN src
        ELSE isInBoundsAccess(V.args[1], Size, Width,
                              IF V.kind = "MemCpyInst" THEN src.SiteLookup
                              ELSE Lookup,
                              OnDemand, Funcs)

Steps ==
    {GEP(TRUE, TRUE, -2), GEP(TRUE, TRUE, 10), GEP(FALSE, TRUE, 10),
     GEP(TRUE, FALSE, 0), BitCast}

Chains == UNION {[1..k -> Steps] : k \in 0..MaxChain}

\* The pointer operands of the module's memory accesses.
Addresses ==
    {Address(b, c) : b \in ModuleValues \cup {Argument}, c \in Chains}


InitBounds ==
    /\ AllocFuncs = BuiltinAllocFuncs
    /\ ClOnDemand \in BOOLEAN
    \* the pointer widths modelled: a narrow one and the full word
    /\ PtrBitWidth \in {WordBits - 1, WordBits}
    /\ SiteLookup = <<>>
    /\ FuncSites = <<>>
    /\ Inserted = <<>>
    /\ pc = "opts"
    /\ call = NoCall
    /\ NoMemAccess

CallComputeSizeAndOffset(Addr) ==
    /\ pc = "pass"
    /\ LET r == computeSizeAndOffset(Addr, PtrBitWidth, SiteLookup, ClOnDemand,
                                     AllocFuncs)
       IN  /\ pc' = after(r.ok)
           /\ SiteLookup' = r.SiteLookup
           /\ call' = [op |-> "computeSizeAndOffset", Addr |-> Addr, ok |-> r.ok,
                       ret |-> [first |-> r.first, second |-> r.second]]
    /\ UNCHANGED <<AllocFuncs, ClOnDemand, PtrBitWidth, Inserted, FuncSites,
                   memVars>>

CallIsInBoundsAccess(Addr, AccessedBytes) ==
    /\ pc = "pass"
    /\ LET r == isInBoundsAccess(Addr, AccessedBytes, PtrBitWidth, SiteLookup,
                                 ClOnDemand, AllocFuncs)
       IN  /\ pc' = after(r.ok)
           /\ SiteLookup' = r.SiteLookup
           /\ call' = [op |-> "isInBoundsAccess", Addr |-> Addr,
                       AccessedBytes |-> AccessedBytes, ok |-> r.ok,
                       ret |-> r.ret]
    /\ UNCHANGED <<AllocFuncs, ClOnDemand, PtrBitWidth, Inserted, FuncSites,
                   memVars>>

NextBounds ==
    \/ RunOnModule
    \/ \E Addr \in Addresses : CallComputeSizeAndOffset(Addr)
    \/ \E Addr \in Addresses, n \in {0, 1, 6, 7, Word - 1} :
            CallIsInBoundsAccess(Addr, n)

SpecBounds == InitBounds /\ [][NextBounds]_vars

(***************************************************************************)
(* Bounds queries on memory instructions and on their MemAccess records.   *)
(***************************************************************************)
\* The memory instructions of the module: every kind isInBounds takes, on
\* pointers with at most one address computation, with store sizes and
\* constant lengths from AccessLengths and a length that is no constant.
AccessLengths == {0, 1, 7, 2^(WordBits \div 2), 2^(WordBits \div 2) + 1}

AccessPointers ==
    {Address(b, c) : b \in ModuleValues \cup {Argument},
                     c \in {<<>>, <<GEP(TRUE, TRUE, 1)>>, <<GEP(TRUE, FALSE, 0)>>}}

BoundsInsts ==
    LET p == Address(Argument, <<>>)
    IN  {MemInst(k, <<a, NonConst(3)>>, n) :
            k \in {"LoadInst", "AtomicRMWInst", "AtomicCmpXchgInst"},
            a \in AccessPointers, n \in AccessLengths}
        \cup {MemInst("StoreInst", <<NonConst(3), a>>, n) :
                a \in AccessPointers, n \in AccessLengths}
        \cup {MemInst("MemSetInst", <<a, NonConst(3), l>>, 0) :
                a \in AccessPointers,
                l \in {ConstantInt(n) : n \in AccessLengths} \cup {NonConst(4)}}
        \cup {MemInst("MemCpyInst", <<a, b, l>>, 0) :
                a \in AccessPointers,
                b \in {p, Address(TheModule.globals[1], <<>>)},
                l \in {ConstantInt(n) : n \in AccessLengths} \cup {NonConst(4)}}
        \cup {MemInst("MemCpyInst", <<p, a, ConstantInt(1)>>, 0) :
                a \in AccessPointers}

\* A client pass calls isInBounds on an instruction.
CallIsInBoundsInst(V) ==
    /\ pc = "pass"
    /\ LET r == isInBounds_Inst(V, PtrBitWidth, SiteLookup, ClOnDemand, AllocFuncs)
       IN  /\ pc' = after(r.ok)
           /\ SiteLookup' = r.SiteLookup
           /\ call' = [op |-> "isInBounds(Instruction)", V |-> V, ok |-> r.ok,
                       ret |-> r.ret, before |-> SiteLookup]
    /\ UNCHANGED <<AllocFuncs, ClOnDemand, PtrBitWidth, Inserted, FuncSites,
                   memVars>>

\* A client pass calls isInBounds on the record that MemRead::Create
\* (asRead) or MemWrite::Create gave it for the instruction V.
CallIsInBounds(V, asRead) ==
    /\ pc = "pass"
    /\ LET MA == IF asRead THEN MemRead_Create([id |-> 1, inst |-> V])
                 ELSE MemWrite_Create([id |-> 1, inst |-> V])
           r == isInBounds(MA, PtrBitWidth, SiteLookup, ClOnDemand, AllocFuncs)
       IN  /\ pc' = after(r.ok)
           /\ SiteLookup' = r.SiteLookup
           /\ call' = [op |-> "isInBounds(MemAccess)", MA |-> MA, ok |-> r.ok,
                       ret |-> r.ret, before |-> SiteLookup]
    /\ UNCHANGED <<AllocFuncs, ClOnDemand, PtrBitWidth, Inserted, FuncSites,
                   memVars>>

NextAccess ==
    \/ RunOnModule
    \/ \E V \in BoundsInsts : CallIsInBoundsInst(V)
    \/ \E V \in BoundsInsts, asRead \in BOOLEAN : CallIsInBounds(V, asRead)

SpecAccess == InitBounds /\ [][NextAccess]_vars

(***************************************************************************)
(* The allocation site index: buckets, iteration, lookup and teardown.     *)
(***************************************************************************)
\* The permutations of a finite set: the orders in which a DenseMap can
\* hold its keys.
Orders(S) ==
    {o \in [1..Cardinality(S) -> S] : \A k \in S : \E i \in DOMAIN o : o[i] = k}

\* AllocListIterator::advanceToNextFunc.  An iterator is FLI and FLE
\* (positions in the order of the buckets, the end being one past the last),
\* L (the position of the bucket of the list) and LI (a position in the
\* list, its end being one past the last).
RECURSIVE advanceToNextFunc(_, _, _)
advanceToNextFunc(it, order, Sites) ==
    IF it.LI = Len(Sites[order[it.L]]) + 1
    THEN IF it.FLI + 1 = it.FLE
         THEN [it EXCEPT !.FLI = it.FLE]
         ELSE advanceToNextFunc(
                  [it EXCEPT !.FLI = it.FLI + 1, !.L = it.FLI + 1, !.LI = 1],
                  order, Sites)
    ELSE it

\* AllocListIterator(B, E).  L(&B->second), LI(L->begin()) read the bucket
\* at B also when B is the end of the map: what they read then is garbage.
AllocListIterator(B, E, order, Sites, garbage) ==
    LET it == [FLI |-> B, FLE |-> E,
               L |-> IF B <= Len(order) THEN B ELSE 0,
               LI |-> IF B <= Len(order) THEN 1 ELSE garbage]
    IN  IF B # E THEN advanceToNextFunc(it, order, Sites) ELSE it

\* AllocListIterator::operator==
iteratorEq(x, y) == x.FLI = y.FLI /\ (x.FLI = x.FLE \/ x.LI = y.LI)

\* AllocListIterator::operator++
iteratorInc(it, order, Sites) ==
    advanceToNextFunc([it EXCEPT !.LI = it.LI + 1], order, Sites)

\* AllocListIterator::operator*
iteratorDeref(it, order, Sites) == Sites[order[it.L]][it.LI]

\* A range-based for loop over a site_range: the sites it visits.
RECURSIVE forRange(_, _, _, _, _)
forRange(it, end, order, Sites, visited) ==
    IF iteratorEq(it, end) THEN visited
    ELSE forRange(iteratorInc(it, order, Sites), end, order, Sites,
                  Append(visited, iteratorDeref(it, order, Sites)))

\* The position of key F in the order of the buckets; the end when F has
\* no bucket (FuncSites.find(F)).
findBucket(F, order) ==
    IF \E i \in DOMAIN order : order[i] = F
    THEN CHOOSE i \in DOMAIN order : order[i] = F
    ELSE Len(order) + 1

\* AllocsPass::sites, iterated to its end.  ok is FALSE when the
\* assertion !ClOnDemand fails.
sites(order, Sites, OnDemand, garbage) ==
    IF OnDemand THEN [ok |-> FALSE, ret |-> <<>>]
    ELSE LET B == 1
             E == Len(order) + 1
         IN  [ok |-> TRUE,
              ret |-> forRange(AllocListIterator(B, E, order, Sites, garbage),
                               AllocListIterator(E, E, order, Sites, garbage),
                               order, Sites, <<>>)]

\* AllocsPass::func_sites(F), iterated to its end; global_sites() is
\* func_sites(nullptr).
func_sites(F, order, Sites, OnDemand, garbage) ==
    IF OnDemand THEN [ok |-> FALSE, ret |-> <<>>]
    ELSE LET B == findBucket(F, order)
             E == IF B # Len(order) + 1 THEN B + 1 ELSE B
         IN  [ok |-> TRUE,
              ret |-> forRange(AllocListIterator(B, E, order, Sites, garbage),
                               AllocListIterator(E, E, order, Sites, garbage),
                               order, Sites, <<>>)]

\* AllocsPass::~AllocsPass: the sites it deletes, in the order of deletion.
RECURSIVE deleteAll(_, _, _)
deleteAll(order, Sites, k) ==
    IF k > Len(order) THEN <<>>
    ELSE Sites[order[k]] \o deleteAll(order, Sites, k + 1)

\* Registries a command line can leave behind: the built-in one, and
\* mypool registered as a malloc, a free or an alloca.
IndexRegistries ==
    {BuiltinAllocFuncs}
    \cup {parse(Join(<<str.mypool, t, <<"0">>>>), BuiltinAllocFuncs).AllocFuncs :
            t \in {str.malloc, str.free, str.alloca}}

\* The values getAllocSite is asked about.
QueryValues ==
    {GlobalVariable(16, FALSE), GlobalVariable(4, TRUE),
     CallInst(Named(str.malloc), <<ConstantInt(16)>>, FALSE),
     CallInst(Named(str.malloc), <<ConstantInt(16)>>, TRUE),
     CallInst(Named(str.mypool), <<ConstantInt(16)>>, FALSE),
     CallInst(Named(str.foo), <<ConstantInt(16)>>, FALSE),
     Argument}

\* The function keys func_sites is asked about.
QueryFunctions == {NullFunction} \cup {F.name : F \in Functions}

\* What a read of the bucket at the end of the map can give.
Garbage == {0, 1}

InitIndex ==
    /\ AllocFuncs \in IndexRegistries
    /\ ClOnDemand \in BOOLEAN
    /\ PtrBitWidth = WordBits
    /\ SiteLookup = <<>>
    /\ FuncSites = <<>>
    /\ Inserted = <<>>
    /\ pc = "opts"
    /\ call = NoCall
    /\ NoMemAccess

\* How many index operations have been called so far.
queries ==
    IF call.op \in {"getAllocSite", "sites", "func_sites"} THEN call.nth ELSE 0

CallGetAllocSite(V) ==
    /\ pc = "pass"
    /\ queries < MaxQueries
    /\ LET r == getAllocSite(V, SiteLookup, ClOnDemand, AllocFuncs)
       IN  /\ SiteLookup' = r.SiteLookup
           /\ call' = [op |-> "getAllocSite", nth |-> queries + 1, V |-> V,
                       had |-> V \in DOMAIN SiteLookup, ok |-> TRUE,
                       ret |-> r.A]
    /\ UNCHANGED <<AllocFuncs, ClOnDemand, PtrBitWidth, FuncSites, Inserted, pc,
                   memVars>>

CallSites(order, garbage) ==
    /\ pc = "pass"
    /\ queries < MaxQueries
    /\ LET r == sites(order, FuncSites, ClOnDemand, garbage)
       IN  /\ pc' = IF r.ok THEN "pass" ELSE "aborted"
           /\ call' = [op |-> "sites", nth |-> queries + 1, ok |-> r.ok,
                       ret |-> r.ret]
    /\ UNCHANGED <<AllocFuncs, ClOnDemand, PtrBitWidth, SiteLookup, FuncSites,
                   Inserted, memVars>>

CallFuncSites(F, order, garbage) ==
    /\ pc = "pass"
    /\ queries < MaxQueries
    /\ LET r == func_sites(F, order, FuncSites, ClOnDemand, garbage)
       IN  /\ pc' = IF r.ok THEN "pass" ELSE "aborted"
           /\ call' = [op |-> "func_sites", nth |-> queries + 1, F |-> F,
                       ok |-> r.ok, ret |-> r.ret]
    /\ UNCHANGED <<AllocFuncs, ClOnDemand, PtrBitWidth, SiteLookup, FuncSites,
                   Inserted, memVars>>

\* The pass is destroyed.
Destroy(order) ==
    /\ pc = "pass"
    /\ pc' = "destroyed"
    /\ call' = [op |-> "~AllocsPass", deleted |-> deleteAll(order, FuncSites, 1)]
    /\ UNCHANGED <<AllocFuncs, ClOnDemand, PtrBitWidth, SiteLookup, FuncSites,
                   Inserted, memVars>>

NextIndex ==
    \/ RunOnModule
    \/ \E V \in QueryValues : CallGetAllocSite(V)
    \/ \E order \in Orders(DOMAIN FuncSites), garbage \in Garbage :
          CallSites(order, garbage)
    \/ \E F \in QueryFunctions, order \in Orders(DOMAIN FuncSites),
          garbage \in Garbage : CallFuncSites(F, order, garbage)
    \/ \E order \in Orders(DOMAIN FuncSites) : Destroy(order)

SpecIndex == InitIndex /\ [][NextIndex]_vars

(***************************************************************************)
(* A loop over the memory accesses of an instruction list:                 *)
(*     for (MemAccess &MA : memaccesses(F)) { ... }                        *)
(* The bodies of one loop either call MA.setPointer, with NewPointer, or   *)
(* MA.setValue, with NewValue, or insert one instruction without memory    *)
(* accesses.                                                               *)
(***************************************************************************)
\* The instructions of the lists: pointers p = NonConst(1), q = NonConst(2),
\* a value NonConst(3), a length NonConst(4).
MemInsts ==
    {MemInst("LoadInst", <<NonConst(1)>>, 4),
     MemInst("StoreInst", <<NonConst(3), NonConst(2)>>, 8),
     MemInst("AtomicCmpXchgInst", <<NonConst(1), NonConst(3), NonConst(3)>>, 4),
     MemInst("AtomicRMWInst", <<NonConst(2), NonConst(3)>>, 8),
     MemInst("MemCpyInst", <<NonConst(2), NonConst(1), NonConst(4)>>, 0),
     MemInst("MemSetInst", <<NonConst(2), NonConst(3), ConstantInt(16)>>, 0),
     CallInst(Named(str.memcmp), <<NonConst(1), NonConst(2), NonConst(4)>>, FALSE),
     CallInst(Named(str.memcmp), <<NonConst(1), NonConst(1), ConstantInt(16)>>,
              FALSE),
     CallInst(Named(str.calloc), <<NonConst(4), NonConst(4)>>, FALSE)}

\* The pointer given to setPointer and the value given to setValue: values
\* no instruction of the lists has as an operand.
NewPointer == NonConst(5)
NewValue == NonConst(6)

InitMem ==
    /\ AllocFuncs = BuiltinAllocFuncs
    /\ ClOnDemand = TRUE
    /\ PtrBitWidth = WordBits
    /\ SiteLookup = <<>>
    /\ FuncSites = <<>>
    /\ Inserted = <<>>
    /\ pc = "pass"
    /\ call = NoCall
    /\ Build \in {"4.0.0", "4.0.0/Analysis", "11.0.0"}
    /\ OptDetectMemCmp \in IF Build = "11.0.0" THEN BOOLEAN ELSE {FALSE}
    /\ Insts \in UNION {{[k \in 1..n |-> [id |-> k, inst |-> s[k]]] :
                              s \in [1..n -> MemInsts]} : n \in 0..MaxInsts}
    /\ iter = [I |-> End, E |-> End, MA |-> <<>>, MAI |-> 0]
    /\ visit = [F |-> <<>>, out |-> <<>>]
    /\ Blocks = <<>>
    /\ ran = <<>>

\* ma_end(F)
ma_end(garbage) ==
    MemAccessIterator(End, End, Insts, Build, OptDetectMemCmp, garbage)

\* The loop is entered: __begin = ma_begin(F).
Begin(garbage) ==
    /\ pc = "pass"
    /\ pc' = "loop"
    /\ iter' = MemAccessIterator(IF Len(Insts) = 0 THEN End ELSE Insts[1].id,
                                 End, Insts, Build, OptDetectMemCmp, garbage)
    /\ visit' = [F |-> Insts, out |-> <<>>]
    /\ UNCHANGED <<AllocFuncs, ClOnDemand, PtrBitWidth, SiteLookup, FuncSites,
                   Inserted, call, Build, OptDetectMemCmp, Insts, Blocks, ran>>

\* __begin != __end holds and the body is given *__begin.
Visit(garbage) ==
    /\ pc = "loop"
    /\ ~maEq(iter, ma_end(garbage), Build)
    /\ pc' = "body"
    /\ visit' = [visit EXCEPT !.out = Append(@, maDeref(iter, Build))]
    /\ UNCHANGED <<AllocFuncs, ClOnDemand, PtrBitWidth, SiteLookup, FuncSites,
                   Inserted, call, Build, OptDetectMemCmp, Insts, iter, Blocks, ran>>

\* The body calls MA.setPointer(P) on the record it was given, which is the
\* one in the iterator.
CallSetPointer(P) ==
    /\ pc = "body"
    /\ Inserted = <<>>
    /\ LET MA == maDeref(iter, Build)
           r == setPointer(MA, P, Insts, Build, OptDetectMemCmp)
       IN  /\ pc' = IF r.ok THEN "rewritten" ELSE "aborted"
           /\ Insts' = r.Insts
           /\ iter' = IF Build = "4.0.0" THEN [iter EXCEPT !.MA = r.MA]
                      ELSE [iter EXCEPT !.MA[iter.MAI + 1] = r.MA]
           /\ call' = [op |-> "setPointer", MA |-> MA, P |-> P, ok |-> r.ok,
                       ret |-> r.MA,
                       nth |-> IF Build = "4.0.0" THEN 0 ELSE iter.MAI,
                       before |-> instAt(MA.I, Insts).inst,
                       after |-> instAt(MA.I, r.Insts).inst]
    /\ UNCHANGED <<AllocFuncs, ClOnDemand, PtrBitWidth, SiteLookup, FuncSites,
                   Inserted, Build, OptDetectMemCmp, visit, Blocks, ran>>

\* The body calls MA.setValue(V) on the record it was given.
CallSetValue(V) ==
    /\ pc = "body"
    /\ Inserted = <<>>
    /\ LET MA == maDeref(iter, Build)
           r == setValue(MA, V, Insts)
       IN  /\ pc' = IF r.ok THEN "rewritten" ELSE "aborted"
           /\ Insts' = r.Insts
           /\ call' = [op |-> "setValue", MA |-> MA, V |-> V, ok |-> r.ok,
                       ret |-> MA,
                       before |-> instAt(MA.I, Insts).inst,
                       after |-> instAt(MA.I, r.Insts).inst]
    /\ UNCHANGED <<AllocFuncs, ClOnDemand, PtrBitWidth, SiteLookup, FuncSites,
                   Inserted, Build, OptDetectMemCmp, iter, visit, Blocks, ran>>

\* ++__begin
Inc ==
    /\ pc \in {"body", "rewritten"}
    /\ pc' = "loop"
    /\ iter' = maInc(iter, Insts, Build, OptDetectMemCmp)
    /\ UNCHANGED <<AllocFuncs, ClOnDemand, PtrBitWidth, SiteLookup, FuncSites,
                   Inserted, call, Build, OptDetectMemCmp, Insts, visit, Blocks, ran>>

\* __begin != __end fails and the loop is left.
Finish(garbage) ==
    /\ pc = "loop"
    /\ maEq(iter, ma_end(garbage), Build)
    /\ pc' = "done"
    /\ UNCHANGED <<AllocFuncs, ClOnDemand, PtrBitWidth, SiteLookup, FuncSites,
                   Inserted, call, memVars>>

\* An instruction list that numbers its nodes by their place.
insertBefore_renumber(Is, k, V) ==
    LET l == SubSeq(Is, 1, k - 1) \o <<[id |-> 0, inst |-> V]>>
             \o SubSeq(Is, k, Len(Is))
    IN  [j \in 1..Len(l) |-> [id |-> j, inst |-> l[j].inst]]

\* IRBuilder<> B(I); B.Create...: a new node with the instruction V before
\* the k-th node of the list (at the end of the list when there is none).
insertBefore(Is, k, V) ==
    SubSeq(Is, 1, k - 1) \o <<[id |-> Len(Is) + 1, inst |-> V]>>
        \o SubSeq(Is, k, Len(Is))

\* The body of the loop inserts a multiplication into the list, as
\* getOrInsertSize does.
InsertMul(k) ==
    /\ pc = "body"
    /\ Inserted = <<>>
    /\ Insts = visit.F
    /\ Insts' = insertBefore(Insts, k, OtherInst("BinaryOperator"))
    /\ Inserted' = <<OtherInst("BinaryOperator")>>
    /\ call' = [op |-> "insert", k |-> k, issued |-> Len(visit.out)]
    /\ UNCHANGED <<AllocFuncs, ClOnDemand, PtrBitWidth, SiteLookup, FuncSites,
                   pc, Build, OptDetectMemCmp, iter, visit, Blocks, ran>>

NextMem ==
    \/ \E garbage \in BOOLEAN : Begin(garbage)
    \/ \E garbage \in BOOLEAN : Visit(garbage)
    \/ CallSetPointer(NewPointer)
    \/ CallSetValue(NewValue)
    \/ \E k \in 1..(Len(Insts) + 1) : InsertMul(k)
    \/ Inc
    \/ \E garbage \in BOOLEAN : Finish(garbage)

SpecMem == InitMem /\ [][NextMem]_vars

(***************************************************************************)
(* Insert points (Common.cpp).  A function is the list of its basic blocks *)
(* in layout order; a block has a name and its instructions; an            *)
(* instruction has an opcode, the incoming (block, value) pairs of a PHI   *)
(* node, and the successor blocks of a terminator (invoke: normal          *)
(* destination, unwind destination).  An instruction is pointed at by the  *)
(* name of its block and its place in the block.                           *)
(***************************************************************************)
Inst(op, in, succ) == [op |-> op, in |-> in, succ |-> succ]

\* The place in the layout of the block named n.
blockIndex(n, F) == CHOOSE j \in 1..Len(F) : F[j].name = n

\* BasicBlock::getFirstInsertionPt: the first instruction that is no PHI
\* node, or the one after it when that is an exception handling pad.
getFirstInsertionPt(B) ==
    LET k == CHOOSE j \in 1..Len(B.insts) :
                 /\ B.insts[j].op # "PHINode"
                 /\ \A h \in 1..(j - 1) : B.insts[h].op = "PHINode"
    IN  IF B.insts[k].op = "LandingPadInst" THEN k + 1 ELSE k

\* A getInsertPointAfter that leaves the PHI nodes of the destination as
\* they are.
getInsertPointAfter_noPatch(I, F) ==
    LET V == F[blockIndex(I.bb, F)].insts[I.k]
        NewBlock == Len(F) + 1
    IN  IF V.op = "InvokeInst"
        THEN LET d == blockIndex(V.succ[1], F)
                 F1 == [F EXCEPT ![blockIndex(I.bb, F)].insts[I.k].succ[1] = NewBlock]
             IN  [ok |-> TRUE, ret |-> [bb |-> NewBlock, k |-> 1],
                  Blocks |-> SubSeq(F1, 1, d - 1)
                             \o <<[name |-> NewBlock,
                                   insts |-> <<Inst("BranchInst", <<>>, <<V.succ[1]>>)>>]>>
                             \o SubSeq(F1, d, Len(F1))]
        ELSE IF V.op = "PHINode"
        THEN [ok |-> TRUE, Blocks |-> F,
              ret |-> [bb |-> I.bb, k |-> getFirstInsertionPt(F[blockIndex(I.bb, F)])]]
        ELSE [ok |-> V.op \notin {"BranchInst", "ReturnInst"}, Blocks |-> F,
              ret |-> [bb |-> I.bb, k |-> I.k + 1]]

\* getInsertPointAfter(Instruction *I): the instruction returned and the
\* function after the call; ok is FALSE when assert(!isa<TerminatorInst>)
\* fails.  The two loops over the PHI nodes at the head of Dst end with
\* every incoming block that was the block of the invoke set to NewBlock.
getInsertPointAfter(I, F) ==
    LET V == F[blockIndex(I.bb, F)].insts[I.k]
        NewBlock == Len(F) + 1
        patch(B) ==
            [j \in 1..Len(B) |->
                IF \A h \in 1..j : B[h].op = "PHINode"
                THEN [B[j] EXCEPT !.in =
                        [e \in 1..Len(@) |->
                            IF @[e].bb = I.bb THEN [@[e] EXCEPT !.bb = NewBlock]
                            ELSE @[e]]]
                ELSE B[j]]
    IN  IF V.op = "InvokeInst"
        THEN LET d == blockIndex(V.succ[1], F)
                 F1 == [F EXCEPT ![blockIndex(I.bb, F)].insts[I.k].succ[1] = NewBlock]
                 F2 == [F1 EXCEPT ![d].insts = patch(@)]
             IN  [ok |-> TRUE, ret |-> [bb |-> NewBlock, k |-> 1],
                  Blocks |-> SubSeq(F2, 1, d - 1)
                             \o <<[name |-> NewBlock,
                                   insts |-> <<Inst("BranchInst", <<>>, <<V.succ[1]>>)>>]>>
                             \o SubSeq(F2, d, Len(F2))]
        ELSE IF V.op = "PHINode"
        THEN [ok |-> TRUE, Blocks |-> F,
              ret |-> [bb |-> I.bb, k |-> getFirstInsertionPt(F[blockIndex(I.bb, F)])]]
        ELSE [ok |-> V.op \notin {"BranchInst", "ReturnInst"}, Blocks |-> F,
              ret |-> [bb |-> I.bb, k |-> I.k + 1]]

\* The functions getInsertPointAfter is called on: an invoke whose normal
\* destination has one predecessor; one whose destination has a second
\* predecessor and two PHI nodes; an invoke in a loop on its own block; two
\* invokes with the same destinations; a function without invokes.
CFGs ==
    LET Phi(in) == Inst("PHINode", [j \in 1..Len(in) |-> [bb |-> in[j], v |-> j]], <<>>)
        Op(o) == Inst(o, <<>>, <<>>)
        Br(succ) == Inst("BranchInst", <<>>, succ)
        Invoke(n, u) == Inst("InvokeInst", <<>>, <<n, u>>)
        BB(n, insts) == [name |-> n, insts |-> insts]
    IN  {<<BB(1, <<Op("CallInst"), Invoke(2, 3)>>),
           BB(2, <<Phi(<<1>>), Op("BinaryOperator"), Op("ReturnInst")>>),
           BB(3, <<Op("LandingPadInst"), Op("ReturnInst")>>)>>,
         <<BB(1, <<Br(<<2, 3>>)>>),
           BB(2, <<Invoke(3, 4)>>),
           BB(3, <<Phi(<<1, 2>>), Phi(<<2, 1>>), Op("BinaryOperator"),
                   Op("ReturnInst")>>),
           BB(4, <<Phi(<<2>>), Op("LandingPadInst"), Op("ReturnInst")>>)>>,
         <<BB(1, <<Br(<<2>>)>>),
           BB(2, <<Phi(<<1, 2>>), Invoke(2, 3)>>),
           BB(3, <<Op("LandingPadInst"), Op("ReturnInst")>>)>>,
         <<BB(1, <<Br(<<2, 5>>)>>),
           BB(2, <<Invoke(3, 4)>>),
           BB(3, <<Phi(<<2, 5>>), Op("ReturnInst")>>),
           BB(4, <<Phi(<<5, 2>>), Op("LandingPadInst"), Op("ReturnInst")>>),
           BB(5, <<Invoke(3, 4)>>)>>,
         <<BB(1, <<Op("LoadInst"), Br(<<2>>)>>),
           BB(2, <<Phi(<<1>>), Phi(<<1>>), Op("ReturnInst")>>)>>}

InitCFG ==
    /\ AllocFuncs = BuiltinAllocFuncs
    /\ ClOnDemand = FALSE
    /\ PtrBitWidth = WordBits
    /\ SiteLookup = <<>>
    /\ FuncSites = <<>>
    /\ Inserted = <<>>
    /\ pc = "pass"
    /\ call = NoCall
    /\ Build = "11.0.0"
    /\ OptDetectMemCmp = FALSE
    /\ Insts = <<>>
    /\ iter = [I |-> End, E |-> End, MA |-> <<>>, MAI |-> 0]
    /\ visit = [F |-> <<>>, out |-> <<>>]
    /\ Blocks \in CFGs
    /\ ran = <<>>

\* A pass calls getInsertPointAfter on an instruction of the function.
CallGetInsertPointAfter(I) ==
    /\ pc = "pass"
    /\ Len(Blocks) < MaxBlocks
    /\ LET r == getInsertPointAfter(I, Blocks)
       IN  /\ pc' = IF r.ok THEN "pass" ELSE "aborted"
           /\ Blocks' = r.Blocks
           /\ call' = [op |-> "getInsertPointAfter", I |-> I, ok |-> r.ok,
                       ret |-> r.ret]
    /\ UNCHANGED <<AllocFuncs, ClOnDemand, PtrBitWidth, SiteLookup, FuncSites,
                   Inserted, Build, OptDetectMemCmp, Insts, iter, visit, ran>>

NextCFG ==
    \E j \in 1..Len(Blocks) : \E k \in 1..Len(Blocks[j].insts) :
        CallGetInsertPointAfter([bb |-> Blocks[j].name, k |-> k])

SpecCFG == InitCFG /\ [][NextCFG]_vars

(***************************************************************************)
(* NoInstrument and ModuleFunctionPass.  A function is its name, a         *)
(* sequence of characters (empty when it has none), and isDeclaration().   *)
(* Build is "4.0.0" (NoInstrument.h, NoInstrument.cpp, ModuleFunctionPass) *)
(* or "3.8.0" (Common.h, CustomFunctionPass.h).                            *)
(***************************************************************************)
NOINSTRUMENT_PREFIX ==
    <<"_", "_", "n", "o", "i", "n", "s", "t", "r", "u", "m", "e", "n", "t", "_">>

isNoInstrument(V) ==
    LET Name == V.name
        startswith(Prefix) ==
            /\ Len(Name) >= Len(Prefix)
            /\ SubSeq(Name, 1, Len(Prefix)) = Prefix
        \* Name.find(Str, From) != npos, From counted from 0
        found(Str, From) ==
            \E at \in (From + 1)..(Len(Name) - Len(Str) + 1) :
                SubSeq(Name, at, at + Len(Str) - 1) = Str
    IN  IF Name # <<>>
        THEN IF startswith(NOINSTRUMENT_PREFIX) THEN TRUE
             ELSE IF startswith(<<"_", "Z">>)
                  THEN found(NOINSTRUMENT_PREFIX, 2)
                  ELSE FALSE
        ELSE FALSE

\* shouldInstrument(Function &F)
shouldInstrument(F) ==
    IF F.isDeclaration THEN FALSE
    ELSE IF isNoInstrument(F) THEN FALSE
    ELSE TRUE

\* shouldInstrument(Function *F) of the build given, F not null
shouldInstrument_Ptr(F, build) ==
    IF build = "3.8.0" THEN ~isNoInstrument(F) ELSE ~shouldInstrument(F)

\* The functions passes are run on: plain and mangled names, with the
\* prefix at the start, further on, or nowhere.
PassFunctions ==
    LET mark == NOINSTRUMENT_PREFIX
        names == {<<"f">>, mark \o <<"f">>, <<"x">> \o mark, <<"_">> \o mark,
                  <<"_", "Z", "1", "f", "v">>, <<"_", "Z">> \o mark,
                  <<"_", "Z", "1", "6">> \o mark \o <<"f", "v">>,
                  <<"_", "Z", "_", "n", "o", "i", "n", "s", "t", "r">>}
    IN  {[name |-> n, isDeclaration |-> d] : n \in names, d \in BOOLEAN}

InitPass ==
    /\ AllocFuncs = BuiltinAllocFuncs
    /\ ClOnDemand = FALSE
    /\ PtrBitWidth = WordBits
    /\ SiteLookup = <<>>
    /\ FuncSites = <<>>
    /\ Inserted = <<>>
    /\ pc = "pass"
    /\ call = NoCall
    /\ Build \in {"3.8.0", "4.0.0"}
    /\ OptDetectMemCmp = FALSE
    /\ Insts = <<>>
    /\ iter = [I |-> End, E |-> End, MA |-> <<>>, MAI |-> 0]
    /\ visit = [F |-> <<>>, out |-> <<>>]
    /\ Blocks = <<>>
    /\ ran = <<>>

\* A pass asks shouldInstrument about a function, by reference.
CallShouldInstrument(F) ==
    /\ pc = "pass"
    /\ pc' = "done"
    /\ call' = [op |-> "shouldInstrument(Function&)", F |-> F,
                ret |-> shouldInstrument(F)]
    /\ UNCHANGED <<AllocFuncs, ClOnDemand, PtrBitWidth, SiteLookup, FuncSites,
                   Inserted, memVars>>

\* A pass asks shouldInstrument about a function, by pointer.
CallShouldInstrument_Ptr(F) ==
    /\ pc = "pass"
    /\ pc' = "done"
    /\ call' = [op |-> "shouldInstrument(Function*)", F |-> F,
                ret |-> shouldInstrument_Ptr(F, Build)]
    /\ UNCHANGED <<AllocFuncs, ClOnDemand, PtrBitWidth, SiteLookup, FuncSites,
                   Inserted, memVars>>

\* ModuleFunctionPass::runOnModule (CustomFunctionPass::runOnModule in
\* 3.8.0) on the module with the functions M, in order.
ModuleFunctionPass_runOnModule(M) ==
    /\ pc = "pass"
    /\ pc' = "done"
    /\ LET body == SelectSeq(M, shouldInstrument)
       IN  ran' = <<[step |-> "initializeModule", F |-> <<>>]>>
                  \o [k \in 1..Len(body) |->
                         [step |-> "runOnFunction", F |-> body[k].name]]
                  \o <<[step |-> "finalizeModule", F |-> <<>>]>>
    /\ call' = [op |-> "runOnModule", M |-> M]
    /\ UNCHANGED <<AllocFuncs, ClOnDemand, PtrBitWidth, SiteLookup, FuncSites,
                   Inserted, Build, OptDetectMemCmp, Insts, iter, visit, Blocks>>

NextPass ==
    \/ \E F \in PassFunctions : CallShouldInstrument(F)
    \/ \E F \in PassFunctions : CallShouldInstrument_Ptr(F)
    \/ \E n \in 0..MaxFunctions : \E M \in [1..n -> PassFunctions] :
           /\ \A j, k \in 1..n : M[j].name = M[k].name => j = k
           /\ ModuleFunctionPass_runOnModule(M)

SpecPass == InitPass /\ [][NextPass]_vars

(***************************************************************************)
(* Properties.                                                             *)
(***************************************************************************)
\* The mathematical sum of the byte offsets of a chain.
RECURSIVE SumOffsets(_)
SumOffsets(chain) ==
    IF chain = <<>> THEN 0 ELSE Head(chain).off + SumOffsets(Tail(chain))

AllConstant(f) == \A k \in 1..Len(f) : f[k].k = "ConstantInt"

\* The mathematical product of constant factors.
RECURSIVE Product(_)
Product(f) == IF f = <<>> THEN 1 ELSE Head(f).v * Product(Tail(f))

\* The site the index holds (or creates on demand) for the base of the
\* address of the last bounds query.
BaseSite == getAllocSite(call.Addr.base, SiteLookup, ClOnDemand, AllocFuncs).A

BaseSizeKnown ==
    /\ BaseSite.isSite
    /\ getConstSize(BaseSite).ok
    /\ getConstSize(BaseSite).Size # UnknownSize

BaseSize == getConstSize(BaseSite).Size

InBoundsAsSpecified ==
    LET o == SumOffsets(call.Addr.chain)
    IN  o >= 0 /\ o + call.AccessedBytes <= BaseSize

\* C1 as stated: for a pointer reached from an indexed base of known
\* constant size S by constant-offset address computations of total offset
\* o, isInBoundsAccess(p, n) is true iff o >= 0 and o + n <= S.
C1_AsClaimed ==
    (/\ call.op = "isInBoundsAccess"
     /\ call.ok
     /\ \A k \in 1..Len(call.Addr.chain) :
            call.Addr.chain[k].op = "GetElementPtr" /\ call.Addr.chain[k].const
     /\ BaseSizeKnown)
    => (call.ret <=> InBoundsAsSpecified)

\* C1 (amended): when every computation of the chain is a cast or an
\* inbounds getelementptr with constant indices, the total offset o fits a
\* signed integer of the pointer width and the base is indexed with a known
\* constant size S (as getConstSize reports it) that fits the pointer
\* width, isInBoundsAccess(p, n) is true iff o >= 0 and o + n <= S.
C1_InBoundsConstantChain ==
    (/\ call.op = "isInBoundsAccess"
     /\ call.ok
     /\ \A k \in 1..Len(call.Addr.chain) :
            \/ call.Addr.chain[k].op = "BitCast"
            \/ call.Addr.chain[k].inbounds /\ call.Addr.chain[k].const
     /\ SumOffsets(call.Addr.chain) >= 0 - 2^(PtrBitWidth - 1)
     /\ SumOffsets(call.Addr.chain) < 2^(PtrBitWidth - 1)
     /\ BaseSizeKnown
     /\ BaseSize < 2^PtrBitWidth)
    => (call.ret <=> InBoundsAsSpecified)

\* A base of size 16, offset 10: 6 bytes fit exactly.
C1_Witness ==
    /\ call.op = "isInBoundsAccess"
    /\ call.Addr.chain = <<GEP(TRUE, TRUE, 10)>>
    /\ BaseSizeKnown
    /\ BaseSize = 16
    /\ call.AccessedBytes = 6
    /\ call.ret

\* The conditions under which C2 asks for an unknown result.
C2_Unprovable(Addr) ==
    LET s == stripAndAccumulateInBoundsConstantOffsets(Addr, APInt(PtrBitWidth, 0))
        A == getAllocSite(s.V, SiteLookup, ClOnDemand, AllocFuncs).A
    IN  \/ \E k \in 1..Len(Addr.chain) :
              Addr.chain[k].op = "GetElementPtr" /\ ~Addr.chain[k].const
        \/ ~A.isSite
        \/ getConstSize(A).ok /\ getConstSize(A).Size = UnknownSize

\* C2: computeSizeAndOffset never returns a half-known pair, and returns
\* (Unknown, Unknown) when the chain has a non-constant offset, the stripped
\* base is not in the index or the base's constant size is Unknown; then
\* isInBoundsAccess is false for every number of bytes.
C2_FailClosed ==
    /\ (call.op = "computeSizeAndOffset" /\ call.ok) =>
          /\ (call.ret.first.BitWidth > 1) <=> (call.ret.second.BitWidth > 1)
          /\ C2_Unprovable(call.Addr) =>
                call.ret.first.BitWidth <= 1 /\ call.ret.second.BitWidth <= 1
    /\ (call.op = "isInBoundsAccess" /\ call.ok /\ C2_Unprovable(call.Addr)) =>
          ~call.ret

\* A non-constant offset on a base of known size, zero bytes accessed.
C2_Witness ==
    /\ call.op = "isInBoundsAccess"
    /\ call.Addr.chain = <<GEP(TRUE, FALSE, 0)>>
    /\ BaseSizeKnown
    /\ call.AccessedBytes = 0
    /\ ~call.ret

\* C3 as stated: getConstSize returns the exact product of the size factors
\* when all are constants, and Unknown as soon as one is not.
C3_ExactProduct ==
    (call.op = "getConstSize" /\ call.ok) =>
        LET f == getSizeFactors(call.A).Factors
        IN  IF AllConstant(f) THEN call.ret = Product(f)
            ELSE call.ret = UnknownSize

ZeroFactors(A) ==
    isAnyAlloc(A) /\ getSizeFactors(A).ok /\ getSizeFactors(A).Factors = <<>>

\* C4 as stated: for an allocating site with no size factor, getConstSize
\* returns Unknown, getOrInsertSize returns no size, and isInBoundsAccess
\* is false on every pointer based on the site.
C4_NoSizeWithoutFactors ==
    /\ (call.op = "getConstSize" /\ call.ok /\ ZeroFactors(call.A)) =>
          call.ret = UnknownSize
    /\ (call.op = "getOrInsertSize" /\ call.ok /\ ZeroFactors(call.A)) =>
          call.ret = nullptr
    /\ (call.op = "isInBoundsAccess" /\ call.ok /\ BaseSite.isSite
            /\ ZeroFactors(BaseSite)) =>
          ~call.ret

\* C5 as stated: with all factors constant getConstSize never returns the
\* sentinel and never the product reduced modulo the word, so a size
\* computeSizeAndOffset reports as known is the product of the factors.
C5_SentinelDistinct ==
    /\ (call.op = "getConstSize" /\ call.ok
            /\ AllConstant(getSizeFactors(call.A).Factors)) =>
          /\ call.ret # UnknownSize
          /\ call.ret = Product(getSizeFactors(call.A).Factors)
    /\ (call.op = "computeSizeAndOffset" /\ call.ok
            /\ call.ret.first.BitWidth > 1 /\ BaseSite.isSite) =>
          call.ret.first.val = Product(getSizeFactors(BaseSite).Factors)

\* C6: getSizeFactors returns at most two factors: the store size of the
\* pointee type for a global; the alloc size of the allocated type, then
\* the array length only for an array allocation, for a stack allocation;
\* for a heap site the argument at SizeArg (if set) then the argument at
\* MembArg (if set), as many factors as the descriptor sets indices.
C6_SizeFactors ==
    (call.op = "getSizeFactors" /\ call.ok) =>
        LET V == call.A.V
            Info == call.A.Info
            set == {i \in {"SizeArg", "MembArg"} : Info[i] >= 0}
        IN  /\ Len(call.ret) <= 2
            /\ V.kind = "GlobalVariable" => call.ret = <<ConstantInt(V.size)>>
            /\ (V.kind = "AllocaInst" /\ V.array = ConstantInt(1)) =>
                  call.ret = <<ConstantInt(V.size)>>
            /\ (V.kind = "AllocaInst" /\ V.array # ConstantInt(1)) =>
                  call.ret = <<ConstantInt(V.size), V.array>>
            /\ isHeapAlloc(call.A) =>
                  /\ Len(call.ret) = Cardinality(set)
                  /\ set = {} => call.ret = <<>>
                  /\ set = {"SizeArg"} => call.ret = <<V.args[Info.SizeArg + 1]>>
                  /\ set = {"MembArg"} => call.ret = <<V.args[Info.MembArg + 1]>>
                  /\ set = {"SizeArg", "MembArg"} =>
                        call.ret = <<V.args[Info.SizeArg + 1],
                                     V.args[Info.MembArg + 1]>>

\* A calloc-like site with two different factors, the SizeArg one first.
C6_Witness ==
    /\ call.op = "getSizeFactors"
    /\ call.ok
    /\ call.A.Info.Type = "Calloc"
    /\ Len(call.ret) = 2
    /\ call.ret[1] # call.ret[2]
    /\ call.ret[1] = call.A.V.args[call.A.Info.SizeArg + 1]

\* C7: TryCreate classifies a global variable as Global, an alloca as
\* Alloca, a call or invoke of a directly called, named, registered function
\* by the descriptor of that name, and returns no site for anything else.
C7_Classification ==
    (call.op = "TryCreate") =>
        LET V == call.V
        IN  IF V.kind = "GlobalVariable"
            THEN call.ret = AllocSite(V, AllocInfo("Global", -1, -1, FALSE))
            ELSE IF V.kind = "AllocaInst"
            THEN call.ret = AllocSite(V, AllocInfo("Alloca", -1, -1, FALSE))
            ELSE IF /\ V.kind \in {"CallInst", "InvokeInst"}
                    /\ V.callee.direct /\ V.callee.hasName
                    /\ V.callee.name \in DOMAIN AllocFuncs
            THEN call.ret = AllocSite(V, AllocFuncs[V.callee.name])
            ELSE ~call.ret.isSite

\* An invoke of a registered allocator is classified by its descriptor.
C7_Witness ==
    /\ call.op = "TryCreate"
    /\ call.V.kind = "InvokeInst"
    /\ call.V.callee = Named(str.malloc)
    /\ call.ret.isSite
    /\ call.ret.Info = AllocInfo("Malloc", 0, -1, FALSE)

\* C8 as stated: after a successful registration of d under n, lookup(n)
\* returns d, also when n was registered before.
C8_LookupReturnsRegistered ==
    (call.op = "parse" /\ ~call.err) =>
        /\ call.Val.first \in DOMAIN AllocFuncs
        /\ AllocFuncs[call.Val.first] = call.Val.second

IntOf == (<<"0">> :> 0) @@ (<<"-", "1">> :> -1) @@ (<<"1">> :> 1)

C9_WellFormed ==
    {f \in CustomFuncFields :
        /\ Len(f) \in {3, 4}
        /\ f[1] # <<>>
        /\ f[2] \in DOMAIN TypeMap
        /\ \A k \in 3..Len(f) : f[k] \in DOMAIN IntOf}

C9_Descriptor(f) ==
    AllocInfo(TypeMap[f[2]], IntOf[f[3]], IF Len(f) = 4 THEN IntOf[f[4]] ELSE -1, TRUE)

C10_Malformed(f) ==
    Len(f) < 3 \/ Len(f) > 4 \/ f[1] = <<>> \/ f[2] \notin DOMAIN TypeMap

\* C10: a value with fewer than 3 or more than 4 fields, an empty function
\* name or an unknown category makes parse report an error and leaves the
\* registry as it was before the call.
C10_RejectedUnchanged ==
    [][(call'.op = "parse") =>
          \A f \in CustomFuncFields :
              (call'.ArgValue = Join(f) /\ C10_Malformed(f)) =>
                  call'.err /\ AllocFuncs' = AllocFuncs]_vars

C10_Witness ==
    /\ call.op = "parse"
    /\ call.ArgValue = Join(<<<<"b", "a", "d">>, str.unknownkind, <<"0">>>>)
    /\ call.err

\* The sites of a sequence of values, in the order of the values.
RECURSIVE SitesInOrder(_)
SitesInOrder(vs) ==
    IF vs = <<>> THEN <<>>
    ELSE LET A == TryCreate(Head(vs), AllocFuncs)
         IN  (IF A.isSite THEN <<A>> ELSE <<>>) \o SitesInOrder(Tail(vs))

Elements(q) == {q[k] : k \in DOMAIN q}

IncludedGlobals == SelectSeq(TheModule.globals, LAMBDA GV : ~GV.noinstr)

\* The sites of the globals and functions not excluded from instrumentation.
IncludedSites ==
    Elements(SitesInOrder(IncludedGlobals))
    \cup UNION {Elements(SitesInOrder(F.insts)) : F \in {G \in Functions : ~G.noinstr}}

\* C11: after the eager scan func_sites(F) yields, in program order and
\* once each, the sites of the instructions of a function F that is not
\* excluded; global_sites() the sites of the globals not excluded; sites()
\* every site of every bucket once; and getAllocSite(v) returns a site
\* exactly when one of these sites has value v, and then returns that site.
C11_Enumeration ==
    /\ (call.op = "func_sites" /\ call.ok) =>
          /\ \A F \in Functions :
                (~F.noinstr /\ call.F = F.name) =>
                    call.ret = SitesInOrder(F.insts)
          /\ call.F = NullFunction => call.ret = SitesInOrder(IncludedGlobals)
    /\ (call.op = "sites" /\ call.ok) =>
          /\ Cardinality(Elements(call.ret)) = Len(call.ret)
          /\ Elements(call.ret) = IncludedSites
    /\ (call.op = "getAllocSite" /\ ~ClOnDemand) =>
          /\ call.ret.isSite <=> \E A \in IncludedSites : A.V = call.V
          /\ call.ret.isSite => call.ret \in IncludedSites /\ call.ret.V = call.V

\* sites() has walked the bucket of the globals, the ten sites of f with
\* mypool registered, and the empty bucket of h.
C11_Witness ==
    /\ call.op = "sites"
    /\ call.ok
    /\ str.mypool \in DOMAIN AllocFuncs
    /\ Len(call.ret) = 11
    /\ FuncSites["h"] = <<>>

\* The sites the index has created: the scan and the on-demand lookup enter
\* every site they create into SiteLookup, and nothing is ever removed.
CreatedSites == {SiteLookup[V] : V \in DOMAIN SiteLookup}

\* C12 as stated: when the pass is destroyed every site the index created,
\* by the scan or on demand, is deleted exactly once.
C12_DestroyedOnce ==
    (call.op = "~AllocsPass") =>
        \A A \in CreatedSites :
            Cardinality({k \in DOMAIN call.deleted : call.deleted[k] = A}) = 1

\* C13: in on-demand mode runOnModule scans nothing (both maps stay empty);
\* the first getAllocSite(v) on a value TryCreate accepts creates the site
\* and enters it into SiteLookup under v, a later getAllocSite(v) returns
\* the cached site and creates nothing, getAllocSite on a value that is no
\* allocation site returns no site and caches nothing, and sites() and
\* func_sites() (global_sites included) fail their assertion.
C13_OnDemand ==
    [][ClOnDemand =>
        /\ (call'.op = "runOnModule") =>
              (SiteLookup' = <<>> /\ FuncSites' = <<>>)
        /\ (call'.op = "getAllocSite") =>
              LET V == call'.V
                  A == TryCreate(V, AllocFuncs)
              IN  /\ FuncSites' = FuncSites
                  /\ IF V \in DOMAIN SiteLookup
                     THEN /\ call'.ret = SiteLookup[V]
                          /\ SiteLookup' = SiteLookup
                     ELSE IF A.isSite
                     THEN /\ call'.ret = A
                          /\ SiteLookup' = (V :> A) @@ SiteLookup
                     ELSE /\ call'.ret = NoSite
                          /\ SiteLookup' = SiteLookup
        /\ (call'.op \in {"sites", "func_sites"}) =>
              (~call'.ok /\ pc' = "aborted")
      ]_vars

\* A second lookup of the same allocation in on-demand mode.
C13_Witness ==
    /\ ClOnDemand
    /\ call.op = "getAllocSite"
    /\ call.nth = 2
    /\ call.had
    /\ call.ret.isSite
    /\ call.ret = SiteLookup[call.V]

DetectsMemCmp ==
    Build = "4.0.0/Analysis" \/ (Build = "11.0.0" /\ OptDetectMemCmp)

\* C15: a call of memcmp gives two reads, of its first and then of its
\* second argument, each with the third argument as length, when memcmp
\* detection is on, and nothing when it is off.
C15_MemCmp ==
    \A k \in DOMAIN Insts :
        LET N == Insts[k]
            V == N.inst
            r == get(N, Build, OptDetectMemCmp)
        IN  (V.kind = "CallInst" /\ V.callee.name = str.memcmp) =>
                IF DetectsMemCmp
                THEN r = <<MemAccess(N.id, V.args[1], V.args[3], TRUE),
                           MemAccess(N.id, V.args[2], V.args[3], TRUE)>>
                ELSE r = <<>>

\* A loop of 11.0.0 with -memaccess-memcmp was given the two reads of a
\* memcmp call.
C15_Witness ==
    /\ Build = "11.0.0"
    /\ OptDetectMemCmp
    /\ pc = "done"
    /\ Len(visit.out) = 2
    /\ Len(Insts) = 1
    /\ Insts[1].inst.callee.name = str.memcmp
    /\ Insts[1].inst.args[1] # Insts[1].inst.args[2]

\* The records of the instructions of a list, in the order of the list.
RECURSIVE allRecords(_, _, _)
allRecords(Is, build, detect) ==
    IF Is = <<>> THEN <<>>
    ELSE get(Head(Is), build, detect) \o allRecords(Tail(Is), build, detect)

\* The nodes of the list the loop was started on, as they are now.
Original == SelectSeq(Insts, LAMBDA N : N.id <= Len(visit.F))

\* C16: a loop from ma_begin to ma_end over a list nobody changes is given
\* the records of get(I) of each instruction I, in the order of the list,
\* and ends.
C16_IteratorYieldsAll ==
    (pc = "done" /\ Insts = visit.F) =>
        visit.out = allRecords(Insts, Build, OptDetectMemCmp)

\* A loop ended over a list of an instruction without records and an atomic
\* instruction.
C16_Witness ==
    /\ pc = "done"
    /\ Insts = visit.F
    /\ Len(Insts) = 2
    /\ get(Insts[1], Build, OptDetectMemCmp) = <<>>
    /\ Insts[2].inst.kind = "AtomicCmpXchgInst"
    /\ Len(visit.out) = 2
    /\ visit.out[1].IsRead /\ ~visit.out[2].IsRead

\* C17: when an instruction without records is inserted into the list
\* while a loop is part-way through it, the records the loop was given
\* stay as they are, getAllocSite answers as before for every instruction
\* of the list, and the loop is given, over all, the records of the
\* instructions it was started on, each once and in the order of the list.
C17_InsertionTolerated ==
    [][/\ (Inserted' # Inserted) =>
              /\ visit'.out = visit.out
              /\ Original' = Original
              /\ \A k \in DOMAIN Insts :
                    getAllocSite(Insts[k].inst, SiteLookup', ClOnDemand',
                                 AllocFuncs').A
                      = getAllocSite(Insts[k].inst, SiteLookup, ClOnDemand,
                                     AllocFuncs).A
       /\ (pc' = "done" /\ Inserted' # <<>> /\ Original' = visit'.F) =>
              visit'.out = allRecords(visit'.F, Build', OptDetectMemCmp')
      ]_vars

\* A loop has ended that was given a record before and a record after a
\* multiplication was inserted into its list, before one of the
\* instructions it was started on.
C17_Witness ==
    /\ pc = "done"
    /\ call.op = "insert"
    /\ Original = visit.F
    /\ 0 < call.issued
    /\ call.issued < Len(visit.out)
    /\ call.k <= Len(visit.F)
    /\ Insts[call.k].inst.kind = "BinaryOperator"

\* The operand of the instruction a record of get was made from: nth is
\* the place of the record among the records of its instruction.
operandOf(V, MA, nth) ==
    IF V.kind = "StoreInst" THEN 1
    ELSE IF V.kind = "MemCpyInst" THEN (IF MA.IsRead THEN 1 ELSE 0)
    ELSE IF V.kind = "CallInst" THEN nth
    ELSE 0

\* C18 as stated: setPointer(P) sets the operand the record was made from
\* to P and the record's Pointer to P, and leaves every other operand as
\* it was; for a memcmp call that operand is the argument the record
\* describes, also when both arguments are the same value.
C18_SetPointerOperand ==
    (call.op = "setPointer") =>
        /\ call.ok
        /\ call.ret = [call.MA EXCEPT !.Pointer = call.P]
        /\ call.after =
              [call.before EXCEPT
                  !.args[operandOf(call.before, call.MA, call.nth) + 1] = call.P]

\* C19 as stated: getOrInsertSize returns a constant when the size folds
\* and the one factor when there is one; with two factors that are not
\* both constant it returns their product, and a multiplication is
\* inserted, before the site, in that case only and only when the caller
\* permits a change by passing its flag; the flag is set whenever a
\* multiplication is inserted and never otherwise.
C19_GetOrInsertSize ==
    (call.op = "getOrInsertSize" /\ call.ok) =>
        LET f == getSizeFactors(call.A).Factors
            product == Len(f) = 2 /\ ~AllConstant(f)
        IN  /\ (Len(f) > 0 /\ AllConstant(f)) => call.ret.k = "ConstantInt"
            /\ (Len(f) = 1) => call.ret.v = f[1].v
            /\ product => call.ret = Mul(f[1], f[2])
            /\ (call.insert # <<>>) =>
                  /\ product
                  /\ call.insert = <<Mul(f[1], f[2])>>
                  /\ call.hasChanged
            /\ call.Changed <=> (call.insert # <<>>)

\* C20 as stated: getSizeFactors and getConstSize return a result, and
\* fail no assertion, on every site TryCreate makes under a registry that
\* -allocs-custom-funcs can build, Free and Delete sites and calls
\* registered as alloca or global included.
C20_NoAssertion ==
    (call.op \in {"getSizeFactors", "getConstSize"}) => call.ok

C26_OverloadsAgree ==
    (call.op = "isInBounds(Instruction)") =>
        LET recs == get([id |-> 1, inst |-> call.V], "4.0.0", FALSE)
        IN  /\ call.ok
            /\ call.ret =
                  \A k \in 1..Len(recs) :
                      isInBounds(recs[k], PtrBitWidth, call.before, ClOnDemand,
                                 AllocFuncs).ret

\* C22 as stated: getFreedPointer returns the first argument of the call on
\* a Free or Delete site and fails an assertion on every other site;
\* getRellocatedPointer returns the first argument on a Realloc site and
\* fails an assertion on every other site; neither changes the registry,
\* the index or the IR.
C22_PointerAccessors ==
    [][/\ (call'.op = "getFreedPointer") =>
             /\ IF isAnyFree(call'.A)
                THEN call'.ok /\ call'.ret = call'.A.V.args[1]
                ELSE ~call'.ok
             /\ UNCHANGED <<AllocFuncs, SiteLookup, FuncSites, Inserted>>
       /\ (call'.op = "getRellocatedPointer") =>
             /\ IF call'.A.Info.Type = "Realloc"
                THEN call'.ok /\ call'.ret = call'.A.V.args[1]
                ELSE ~call'.ok
             /\ UNCHANGED <<AllocFuncs, SiteLookup, FuncSites, Inserted>>]_vars

\* A field that is a decimal integer from its first to its last character.
WellFormedInt(s) ==
    LET d == IF s # <<>> /\ s[1] \in {"+", "-"} THEN Tail(s) ELSE s
    IN  d # <<>> /\ \A k \in 1..Len(d) : d[k] \in DOMAIN DigitVal

\* C23 as stated: a value whose name, category and number of fields are
\* fine but whose third or fourth field is not an integer from start to end
\* (empty, no digits, or digits followed by other characters) makes parse
\* report an error and registers nothing.
C23_IntegerFields ==
    [][(call'.op = "parse") =>
          \A f \in CustomFuncFields :
              (/\ call'.ArgValue = Join(f)
               /\ ~C10_Malformed(f)
               /\ \E k \in 3..Len(f) : ~WellFormedInt(f[k])) =>
                  call'.err /\ AllocFuncs' = AllocFuncs]_vars

\* C24 as stated: setValue fails an assertion on every read record; on
\* every write record (store, cmpxchg, atomicrmw, memset, destination of a
\* memcpy) it succeeds, replaces the value the instruction writes and no
\* other operand, and leaves the record as it was.
C24_SetValue ==
    (call.op = "setValue") =>
        IF call.MA.IsRead THEN ~call.ok
        ELSE LET K == call.before.kind
                 written == IF K = "StoreInst" THEN {1}
                            ELSE IF K = "AtomicCmpXchgInst" THEN {3}
                            ELSE IF K \in {"AtomicRMWInst", "MemSetInst"} THEN {2}
                            ELSE {}
             IN  /\ call.ok
                 /\ call.ret = call.MA
                 /\ \A k \in 1..Len(call.before.args) :
                       call.after.args[k] =
                          IF k \in written THEN call.V ELSE call.before.args[k]

C27_ModesAgree ==
    (call.op = "getAllocSite") =>
        call.ret = getAllocSite(call.V,
                                IF ClOnDemand THEN scan(AllocFuncs) ELSE <<>>,
                                ~ClOnDemand, AllocFuncs).A

\* C28 as stated: while the body of the loop runs, before and after its
\* call of setPointer, every record the iterator holds for the current
\* instruction has a Pointer equal to the pointer operand of the
\* instruction it describes; so the write record of a cmpxchg or atomicrmw
\* reports P after setPointer(P) on its read record.
C28_CachedPointers ==
    (pc \in {"body", "rewritten"}) =>
        LET recs == IF Build = "4.0.0" THEN <<iter.MA>> ELSE iter.MA
        IN  \A k \in 1..Len(recs) :
                LET V == instAt(recs[k].I, Insts).inst
                IN  recs[k].Pointer = V.args[operandOf(V, recs[k], k - 1) + 1]

\* C29 as stated: calls of getOrInsertSize on one site insert at most one
\* multiplication in total; a later call returns what the first call
\* returned, inserts nothing and reports no change.
C29_InsertsOnce ==
    (call.op = "getOrInsertSize" /\ call.ok) =>
        /\ Len(Inserted) <= 1
        /\ (call.nth > 1) =>
              /\ call.insert = <<>>
              /\ ~call.Changed
              /\ call.ret = getOrInsertSize(call.A, FALSE).ret

\* The name carries the no-instrument prefix at its start, or is a mangled
\* _Z name carrying it anywhere after its first two characters.
Marked(name) ==
    LET P == NOINSTRUMENT_PREFIX
        at(i) == i + Len(P) - 1 <= Len(name) /\ SubSeq(name, i, i + Len(P) - 1) = P
    IN  \/ at(1)
        \/ /\ Len(name) >= 2
           /\ name[1] = "_"
           /\ name[2] = "Z"
           /\ \E i \in 3..Len(name) : at(i)

\* C30 as stated: both overloads of shouldInstrument answer TRUE exactly
\* for a definition whose name is not marked; a module function pass calls
\* initializeModule first, finalizeModule last, and in between runOnFunction
\* on exactly the functions of the module that are such definitions.
C30_ShouldInstrument ==
    /\ (call.op \in {"shouldInstrument(Function&)", "shouldInstrument(Function*)"}) =>
           call.ret = (~call.F.isDeclaration /\ ~Marked(call.F.name))
    /\ (call.op = "runOnModule") =>
           LET M == call.M
               n == Len(ran)
               want == {k \in 1..Len(M) :
                          ~M[k].isDeclaration /\ ~Marked(M[k].name)}
           IN  /\ n = Cardinality(want) + 2
               /\ ran[1].step = "initializeModule"
               /\ ran[n].step = "finalizeModule"
               /\ \A k \in 2..(n - 1) : ran[k].step = "runOnFunction"
               /\ \A j, k \in want :
                      j < k => \E a, b \in 2..(n - 1) :
                                  /\ a < b
                                  /\ ran[a].F = M[j].name
                                  /\ ran[b].F = M[k].name
               /\ \A k \in want : \E a \in 2..(n - 1) : ran[a].F = M[k].name
====
